---- MODULE Spec2Model ----
(***************************************************************************)
(* A model of golem: the ReAct engine (engine/react.rs), the tool registry *)
(* (tools/mod.rs), the SQLite memory (memory/sqlite.rs), the response      *)
(* parser (thinker/mod.rs) and the LLM thinker's retry loop                *)
(* (thinker/anthropic.rs).                                                 *)
(***************************************************************************)
EXTENDS Integers, Sequences, FiniteSets, TLC

\* ------------------------------------------------------------------ bounds
\* ReactConfig.max_iterations as configured for the checked engine.
MaxIterations == 2
\* Number of run() calls made on the engine.
MaxRuns == 2
\* Longest action.calls array of a response text.
MaxItems == 2
\* code points of an output truncate_output is applied to, and its largest bound
MaxChars == 3
MaxBytes == 5
\* The last instant of the wall clock, in units of five minutes.
MaxNow == 3
\* Rows ever inserted into one table of the database.
MaxRows == 3
\* Register and unregister calls made on one registry.
MaxWrites == 3
\* Execute calls made on one registry.
MaxCalls == 2

\* Callers of one AuthStorage path at the same time.
MaxCallers == 2

\* ------------------------------------------------------- program constants
\* thinker/mod.rs: pub const MAX_PARSE_RETRIES: usize = 1
MAX_PARSE_RETRIES == 1

VARIABLES
    \* --- SqliteMemory
    memory,         \* table memory: the per-task log, ordered by id
    session,        \* table session_history, ordered by id
    \* --- ToolRegistry
    registry,       \* names of the registered tools
    \* --- ReactEngine
    thinker,        \* the Box<dyn Thinker> held in the RwLock slot
    readers,        \* read guards alive on the thinker RwLock
    guard,          \* the thinker the live read guard dereferences to
    swap,           \* set_thinker in progress: its pc and the new thinker
    session_usage,  \* ReactEngine.session_usage
    \* --- the future of run()
    pc,             \* position of run()
    task,           \* run's argument
    iteration,      \* the loop variable of run
    context,        \* Context built for the next_step call
    step,           \* step_result.step
    slots,          \* one future per call of the Act step
    order,          \* the calls' futures in the order they finished, and how
    result,         \* what the last run() returned
    runs,           \* number of run() calls started
    \* --- observation of the environment (what the thinker was asked and said)
    produced,       \* steps the thinker returned in the current run, in order
    replies,        \* per run: how many next_step calls were made
    usageCount,     \* number of returned StepResults that carried usage
    finished,       \* number of runs that returned Ok
    sessionAtRun,   \* session_history as it was when the current run started
    \* --- parse_response applied to one response text
    text,           \* the response text
    parsed,         \* what parse_response returned for it
    \* --- the future of AnthropicThinker::next_step
    llm,            \* its locals, the calls it made and what it returned
    \* --- one ShellTool and the future of its execute()
    shell,          \* config, process environment, position, child, result
    \* --- truncate_output applied to one output
    trunc,          \* the output, the bound and what was returned
    \* --- AuthStorage: auth.json, the process environment, the clock
    auth,           \* the file, the calls made on it and what they returned
    \* --- one SqliteMemory: the two tables of its database
    db,             \* the rows, the AUTOINCREMENT counters, the last call
    \* --- one ToolRegistry and the calls in flight on it
    tool_registry,  \* the map, the lock's holders and waiter, the last call
    \* --- one auth.json and the AuthStorage calls in flight on it
    vault           \* the file, each caller's position and locals, the requests

engineVars == <<memory, session, registry, thinker, readers, guard, swap,
                session_usage, pc, task, iteration, context, step, slots,
                order, result, runs, produced, replies, usageCount, finished,
                sessionAtRun>>
parseVars == <<text, parsed>>
llmVars == <<llm>>
shellVars == <<shell>>
truncVars == <<trunc>>
authVars == <<auth>>
dbVars == <<db>>
regVars == <<tool_registry>>
vaultVars == <<vault>>
offEngine == <<parseVars, llmVars, shellVars, truncVars, authVars, dbVars, regVars, vaultVars>>
offParse == <<engineVars, llmVars, shellVars, truncVars, authVars, dbVars, regVars, vaultVars>>
offLlm == <<engineVars, parseVars, shellVars, truncVars, authVars, dbVars, regVars, vaultVars>>
offShell == <<engineVars, parseVars, llmVars, truncVars, authVars, dbVars, regVars, vaultVars>>
offTrunc == <<engineVars, parseVars, llmVars, shellVars, authVars, dbVars, regVars, vaultVars>>
offAuth == <<engineVars, parseVars, llmVars, shellVars, truncVars, dbVars, regVars, vaultVars>>
offDb == <<engineVars, parseVars, llmVars, shellVars, truncVars, authVars, regVars, vaultVars>>
offReg == <<engineVars, parseVars, llmVars, shellVars, truncVars, authVars, dbVars, vaultVars>>
offVault == <<engineVars, parseVars, llmVars, shellVars, truncVars, authVars, dbVars,
             regVars>>

vars == <<engineVars, parseVars, llmVars, shellVars, truncVars, authVars, dbVars, regVars, vaultVars>>

\* --------------------------------------------------------------- data model
\* tools/mod.rs Outcome
Success(s) == [tag |-> "Success", text |-> s]
Error(s) == [tag |-> "Error", text |-> s]

\* tools/mod.rs ToolResult
ToolResult(t, o) == [tool |-> t, outcome |-> o]

\* memory/mod.rs MemoryEntry (one record shape for the three variants)
TaskEntry(c) == [kind |-> "Task", thought |-> "", content |-> c, results |-> <<>>]
IterationEntry(th, rs) == [kind |-> "Iteration", thought |-> th, content |-> "", results |-> rs]
AnswerEntry(th, c) == [kind |-> "Answer", thought |-> th, content |-> c, results |-> <<>>]

\* memory/mod.rs SessionEntry
SessionEntry(t, a) == [task |-> t, answer |-> a]

\* thinker/mod.rs ToolCall, Step
\* args, a HashMap<String, String>, is a function from its keys to strings
ToolCall(t, a) == [tool |-> t, args |-> a]
EmptyArgs == [k \in {} |-> ""]
Act(th, cs) == [kind |-> "Act", thought |-> th, calls |-> cs, answer |-> ""]
Finish(th, a) == [kind |-> "Finish", thought |-> th, calls |-> <<>>, answer |-> a]
NoStep == [kind |-> "None", thought |-> "", calls |-> <<>>, answer |-> ""]

\* thinker/mod.rs TokenUsage
ZeroUsage == [input_tokens |-> 0, output_tokens |-> 0]
NoUsage == [some |-> FALSE, usage |-> ZeroUsage]
SomeUsage(u) == [some |-> TRUE, usage |-> u]

\* ------------------------------------------------------- environment inputs
Tasks == {"task one", "task two"}
Answers == {"42", "done"}
ThinkerIds == {1, 2}
\* what one LLM call reports when it reports usage at all
StepUsage == [input_tokens |-> 3, output_tokens |-> 1]
Usages == {NoUsage, SomeUsage(StepUsage)}
\* the Act steps a thinker may produce: one call, and two calls to different
\* tools of which one is not registered
ActSteps ==
    { Act("look", <<ToolCall("shell", [command |-> "echo one"])>>),
      Act("both", <<ToolCall("nonexistent", EmptyArgs),
                    ToolCall("shell", [command |-> "echo two"])>>) }
FinishSteps == { Finish("got it", a) : a \in Answers }
Steps == ActSteps \cup FinishSteps
\* what ShellTool::execute may return for a call: the output of its command
\* (named here by the command), or an error
ToolOutcomes(call) ==
    IF "command" \in DOMAIN call.args
    THEN { Success(call.args.command), Error("exit code 1") }
    ELSE { Error("missing required arg: command") }

CallIndices == UNION { DOMAIN s.calls : s \in ActSteps }
AllToolOutcomes == UNION { ToolOutcomes(s.calls[i]) : <<s, i>> \in { <<s, i>> \in ActSteps \X CallIndices : i \in DOMAIN s.calls } }

MaxIterMsg == "max iterations reached"
ThinkerErrMsg == "thinker error"

\* ------------------------------------------------------------ SqliteMemory
MemoryClearKeep(mem) == mem
\* DELETE FROM memory
MemoryClear(mem) == <<>>

MemoryStoreFirst(mem, e) == <<e>> \o mem
\* INSERT INTO memory (entry)
MemoryStore(mem, e) == Append(mem, e)

\* SELECT entry FROM memory ORDER BY id ASC
MemoryHistory(mem) == mem

\* ------------------------------------------------------------ ToolRegistry
RegistryExecuteNoName(reg, call, out) ==
    IF call.tool \in reg
    THEN ToolResult(call.tool, out)
    ELSE ToolResult(call.tool, Error("unknown tool"))
\* execute: out is what the tool's own execute returned, as an Outcome
RegistryExecute(reg, call, out) ==
    IF call.tool \in reg
    THEN ToolResult(call.tool, out)
    ELSE ToolResult(call.tool, Error("unknown tool: " \o call.tool))

\* descriptions
RegistryDescriptions(reg) == reg

\* -------------------------------------------------------------- TokenUsage
UsageAddAssign(a, b) == b
\* TokenUsage::add
UsageAdd(a, b) ==
    [input_tokens |-> a.input_tokens + b.input_tokens,
     output_tokens |-> a.output_tokens + b.output_tokens]

\* ------------------------------------------------------------- ReactEngine
NoResult == ToolResult("", [tag |-> "", text |-> ""])
PendingSlot == [state |-> "pending", result |-> NoResult]
ReadySlot(r) == [state |-> "ready", result |-> r]

LoopContinuesInclusive(it) == it <= MaxIterations
\* for iteration in 0..self.config.max_iterations
LoopContinues(it) == it < MaxIterations

WriteLeaseAlways(r) == TRUE
\* RwLock::write resolves only when no read guard is alive
WriteLeaseAvailable(r) == r = 0

\* RwLock::read resolves when no writer holds or is queued for the lock
ReadLeaseAvailable(sw) == sw.pc = "idle"

TimeoutAll(s, i, call) ==
    [j \in 1..Len(s) |->
        IF s[j].state = "pending"
        THEN ReadySlot(ToolResult(call.tool, Error("timed out")))
        ELSE s[j]]
\* Err(_) arm of the tokio::time::timeout wrapper of call i
TimeoutSlot(s, i, call) ==
    [s EXCEPT ![i] = ReadySlot(ToolResult(call.tool, Error("timed out")))]

JoinAllFirstResolved(s) == \E i \in 1..Len(s) : s[i].state = "ready"
\* join_all(futures).await resolves when every future has resolved
JoinAllResolved(s) == \A i \in 1..Len(s) : s[i].state = "ready"

ReleaseReadLate(r) == r
\* the guard of self.thinker.read() is dropped at the end of the block that
\* holds the next_step call
ReleaseRead(r) == r - 1

JoinAllCompletionOrder(s, ord) == [k \in 1..Len(ord) |-> s[ord[k].i].result]
\* futures::future::join_all: the outputs in the order of the futures
JoinAll(s, ord) == [i \in 1..Len(s) |-> s[i].result]


\* ------------------------------------------- response texts and their JSON
\* a JSON value at a field: absent, a string (s its content), or a value that
\* is not a string (s its JSON serialization)
JAbsent == [t |-> "absent", s |-> ""]
JStr(x) == [t |-> "str", s |-> x]
JNum(x) == [t |-> "num", s |-> x]
JNull == [t |-> "null", s |-> "null"]

\* the "args" field of an item of action.calls
ArgsAbsent == [t |-> "absent", map |-> EmptyArgs]
ArgsNonObject == [t |-> "nonobj", map |-> EmptyArgs]
ArgsObject(m) == [t |-> "obj", map |-> m]

\* the items an action.calls array is made of
Items ==
    { [tool |-> tl, args |-> a] :
        tl \in { JAbsent, JNum("7"), JStr("shell") },
        a \in { ArgsAbsent, ArgsNonObject,
                ArgsObject([command |-> JStr("ls"), count |-> JNum("42")]) } }

SeqsUpTo(S, n) == UNION { [1..k -> S] : k \in 0..n }

\* the "calls" field of action and the "action" field of the response
CallsAbsent == [t |-> "absent", items |-> <<>>]
CallsNonArray == [t |-> "nonarr", items |-> <<>>]
CallsArray(is) == [t |-> "arr", items |-> is]
CallsValues ==
    { CallsAbsent, CallsNonArray } \cup { CallsArray(is) : is \in SeqsUpTo(Items, MaxItems) }
ActionAbsent == [t |-> "absent", calls |-> CallsAbsent]
ActionNonObject == [t |-> "nonobj", calls |-> CallsAbsent]
ActionObject(c) == [t |-> "obj", calls |-> c]
ActionValues ==
    { ActionAbsent, ActionNonObject } \cup { ActionObject(c) : c \in CallsValues }

\* what stands between the prose or fences of a response text: text that is
\* no JSON and has no brace, a JSON value that is no object, or a JSON object
NoBody == [kind |-> "none", thought |-> JAbsent, answer |-> JAbsent, action |-> ActionAbsent]
Garbage == [kind |-> "garbage", thought |-> JAbsent, answer |-> JAbsent, action |-> ActionAbsent]
Scalar == [kind |-> "scalar", thought |-> JAbsent, answer |-> JAbsent, action |-> ActionAbsent]
Object(th, an, ac) == [kind |-> "object", thought |-> th, answer |-> an, action |-> ac]
Bodies ==
    { Garbage, Scalar }
        \cup { Object(th, an, ac) :
                 th \in { JAbsent, JStr("hmm"), JNum("1") },
                 an \in { JAbsent, JStr("42"), JNum("42"), JNull },
                 ac \in ActionValues }

\* a response text, trimmed: what precedes the body, the body, what follows;
\* prose and fences hold no brace
FenceJson == "[fence]json"
Fence == "[fence]"
Pres == { "", "prose", FenceJson, Fence }
Posts == { "", "prose", Fence }
Text(pre, body, post) == [pre |-> pre, body |-> body, post |-> post]
Texts == { Text(pre, b, post) : pre \in Pres, b \in Bodies, post \in Posts }
NoText == Text("", NoBody, "")

\* ------------------------------------------------------------ extract_json
\* trimmed.starts_with of an opening brace
StartsWithBrace(t) == t.pre = "" /\ t.body.kind = "object"

\* find of the first opening and rfind of the last closing brace, end > start
HasBracePair(t) == t.body.kind = "object"

ExtractJson(t) ==
    IF t.pre = FenceJson /\ t.post = Fence THEN Text("", t.body, "")
    ELSE IF t.pre = Fence /\ t.post = Fence THEN Text("", t.body, "")
    ELSE IF ~StartsWithBrace(t) /\ HasBracePair(t) THEN Text("", t.body, "")
    ELSE t

\* serde_json::from_str::<Value> succeeds on exactly one JSON value
FromStrOk(t) == t.pre = "" /\ t.post = "" /\ t.body.kind \in {"scalar", "object"}

\* ---------------------------------------------------------- parse_response
ParseOk(st) == [tag |-> "ok", step |-> st, msg |-> ""]
ParseErr(m) == [tag |-> "err", step |-> NoStep, msg |-> m]
NotParsed == [tag |-> "none", step |-> NoStep, msg |-> ""]

\* Value::get(key) of the response: None unless it is an object with the key
Get(b, key) ==
    IF b.kind # "object" THEN JAbsent
    ELSE IF key = "thought" THEN b.thought ELSE b.answer

\* v.as_str().unwrap_or("")
AsStrOrEmpty(v) == IF v.t = "str" THEN v.s ELSE ""

\* Value::String(s) => s.clone(), other => other.to_string()
ArgString(v) == v.s

\* the filter_map closure: Some(ToolCall) or None
CallKept(c) == c.tool.t = "str" /\ c.args.t # "absent"
ConvertArgs(a) ==
    IF a.t = "obj" THEN [k \in DOMAIN a.map |-> ArgString(a.map[k])] ELSE EmptyArgs
FilterMapCalls(is) ==
    LET kept == SelectSeq(is, CallKept)
    IN  [i \in 1..Len(kept) |-> ToolCall(kept[i].tool.s, ConvertArgs(kept[i].args))]

ToolCallsNeverEmpty(tc) == FALSE
\* tool_calls.is_empty()
ToolCallsEmpty(tc) == Len(tc) = 0

AnswerPresentWithoutAction(b) == Get(b, "answer").t # "absent" /\ b.action.t = "absent"
\* if let Some(answer) = response.get("answer")
AnswerPresent(b) == Get(b, "answer").t # "absent"

ParseResponse(t) ==
    LET json == ExtractJson(t)
        b == json.body
        thought == AsStrOrEmpty(Get(b, "thought"))
        answer == Get(b, "answer")
    IN  IF ~FromStrOk(json) THEN ParseErr("failed to parse LLM response as JSON")
        ELSE IF AnswerPresent(b) THEN ParseOk(Finish(thought, AsStrOrEmpty(answer)))
        ELSE IF b.kind = "object" /\ b.action.t = "obj" /\ b.action.calls.t = "arr"
        THEN LET tool_calls == FilterMapCalls(b.action.calls.items)
             IN  IF ToolCallsEmpty(tool_calls)
                 THEN ParseErr("LLM returned action with no valid tool calls")
                 ELSE ParseOk(Act(thought, tool_calls))
        ELSE ParseErr("LLM response is neither an answer nor a tool call")

\* --------------------------------------------------------- AnthropicThinker
\* thinker/mod.rs PARSE_RETRY_PROMPT
PARSE_RETRY_PROMPT == "Your previous response was not valid JSON."

\* Message {role, content}; content is told apart by kind: "task" (str the
\* task), "finish_json" (str the answer), "act_json" (str the thought, list the
\* tools), "tool_results" (list the result lines), "raw" (txt a response
\* text), "correction" (str the prompt)
Message(role, kind, str, list, txt) ==
    [role |-> role, kind |-> kind, str |-> str, list |-> list, txt |-> txt]
ResultLine(r) ==
    [tool |-> r.tool, mark |-> IF r.outcome.tag = "Success" THEN "ok" ELSE "err",
     text |-> r.outcome.text]
CallLine(r) == [tool |-> r.tool, mark |-> "", text |-> ""]

\* the two messages of session entry e
SessionPair(e) ==
    << Message("user", "task", e.task, <<>>, NoText),
       Message("assistant", "finish_json", e.answer, <<>>, NoText) >>

\* the two messages of an Iteration entry e
IterationPair(e) ==
    << Message("assistant", "act_json", e.thought,
               [k \in 1..Len(e.results) |-> CallLine(e.results[k])], NoText),
       Message("user", "tool_results", "",
               [k \in 1..Len(e.results) |-> ResultLine(e.results[k])], NoText) >>

IsNotTask(e) == e.kind # "Task"
IsIteration(e) == e.kind = "Iteration"

build_messages(ctx) ==
    LET sh == ctx.session_history
        its == SelectSeq(ctx.history, IsIteration)
    IN  [i \in 1..(2 * Len(sh)) |-> SessionPair(sh[(i + 1) \div 2])[2 - (i % 2)]]
            \o << Message("user", "task", ctx.task, <<>>, NoText) >>
            \o [i \in 1..(2 * Len(its)) |-> IterationPair(its[(i + 1) \div 2])[2 - (i % 2)]]

\* prompts/react.rs: the parts the system prompt is made of, in order, and the
\* tools it lists
build_react_system_prompt_with_session(tools, has_session_history) ==
    [parts |-> << "INTRO" >>
                \o (IF has_session_history THEN << "SESSION_CONTEXT" >> ELSE <<>>)
                \o (IF tools # {} THEN << "Available tools:" >> ELSE <<>>)
                \o << "TOOL_FORMAT", "ANSWER_FORMAT", "RULES" >>,
     tools |-> tools]
build_react_system_prompt(tools) == build_react_system_prompt_with_session(tools, FALSE)
NoSystem == [parts |-> <<>>, tools |-> {}]

\* the Context values next_step is called with
LlmContexts ==
    { [task |-> "task one", history |-> h, session_history |-> sh,
       available_tools |-> {"shell"}] :
        h \in { << TaskEntry("task one") >>,
                << TaskEntry("task one"),
                   IterationEntry("look", << ToolResult("shell", Success("echo one")) >>) >>,
                << TaskEntry("task one"),
                   IterationEntry("look", << ToolResult("shell", Success("echo one")),
                                             ToolResult("nonexistent", Error("unknown tool")) >>),
                   AnswerEntry("found", "42"),
                   IterationEntry("again", <<>>) >> },
        sh \in { <<>>, << SessionEntry("task two", "42") >> } }
NoLlmContext ==
    [task |-> "", history |-> <<>>, session_history |-> <<>>, available_tools |-> {}]

\* the texts a call of the Messages API may return
LlmTexts ==
    { Text("", Object(JStr("hmm"), JStr("42"), ActionAbsent), ""),
      Text("prose", Object(JStr("hmm"), JAbsent,
              ActionObject(CallsArray(<< [tool |-> JStr("shell"),
                                          args |-> ArgsObject([command |-> JStr("ls"),
                                                               count |-> JNum("42")])] >>))), ""),
      Text("", Garbage, ""),
      Text("", Object(JStr("hmm"), JAbsent, ActionObject(CallsArray(<<>>))), ""),
      Text("", Object(JAbsent, JStr("42"), ActionAbsent), "prose") }

\* RawResponse.usage: none, some tokens, or a usage of no tokens
LlmUsages == Usages \cup { SomeUsage(ZeroUsage) }

\* Result<StepResult> of next_step
LlmNone == [tag |-> "none", step |-> NoStep, usage |-> NoUsage, msg |-> ""]
LlmOk(st, u) == [tag |-> "ok", step |-> st, usage |-> u, msg |-> ""]
LlmErr(m) == [tag |-> "err", step |-> NoStep, usage |-> NoUsage, msg |-> m]

\* the locals of next_step, with the lists it sent and the texts it received
LlmState(p, ctx) ==
    [pc |-> p, context |-> ctx, attempt |-> 0, messages |-> <<>>,
     system |-> NoSystem, total_usage |-> ZeroUsage, calls |-> 0, sent |-> <<>>,
     systems |-> <<>>, outcomes |-> <<>>, raws |-> <<>>, used |-> <<>>,
     out |-> LlmNone]
NoLlm == LlmState("none", NoLlmContext)

\* for attempt in 0..=MAX_PARSE_RETRIES
AttemptInRange(a) == a <= MAX_PARSE_RETRIES

RetryAllowedInclusive(a) == a <= MAX_PARSE_RETRIES
\* if attempt < MAX_PARSE_RETRIES
RetryAllowed(a) == a < MAX_PARSE_RETRIES

RetryCallApi(st, msg) ==
    IF st.attempt < MAX_PARSE_RETRIES
    THEN [st EXCEPT !.attempt = @ + 1]
    ELSE [st EXCEPT !.pc = "done", !.out = LlmErr(msg)]
\* self.call_api(..).await?: the error of call_api is returned from next_step
ReturnCallApiErr(st, msg) == [st EXCEPT !.pc = "done", !.out = LlmErr(msg)]

CombinedUsageAlways(total) == SomeUsage(total)
\* if total_usage.total() > 0 { Some(total_usage) } else { None }
CombinedUsage(total) ==
    IF total.input_tokens + total.output_tokens > 0 THEN SomeUsage(total) ELSE NoUsage

\* ------------------------------------------------------------ Rust strings
\* a command is a TLA+ string; only ASCII commands are drawn
UpperCase == "ABCDEFGHIJKLMNOPQRSTUVWXYZ"
LowerCase == "abcdefghijklmnopqrstuvwxyz"
CharAt(s, i) == SubSeq(s, i, i)
IndexIn(alphabet, c) == { i \in 1..Len(alphabet) : CharAt(alphabet, i) = c }
MapChar(from, to, c) ==
    IF IndexIn(from, c) = {} THEN c ELSE CharAt(to, CHOOSE i \in IndexIn(from, c) : TRUE)

RECURSIVE MapChars(_, _, _)
MapChars(from, to, s) ==
    IF s = "" THEN "" ELSE MapChar(from, to, CharAt(s, 1)) \o MapChars(from, to, SubSeq(s, 2, Len(s)))

\* str::to_lowercase, str::to_uppercase
to_lowercase(s) == MapChars(UpperCase, LowerCase, s)
to_uppercase(s) == MapChars(LowerCase, UpperCase, s)

\* str::contains, str::starts_with with a string pattern
contains(s, pat) == \E i \in 1..(Len(s) - Len(pat) + 1) : SubSeq(s, i, i + Len(pat) - 1) = pat
starts_with(s, pat) == Len(pat) <= Len(s) /\ SubSeq(s, 1, Len(pat)) = pat

\* str::trim (the commands drawn hold no whitespace but the space)
RECURSIVE trim_start(_)
trim_start(s) == IF s # "" /\ CharAt(s, 1) = " " THEN trim_start(SubSeq(s, 2, Len(s))) ELSE s
RECURSIVE trim_end(_)
trim_end(s) ==
    IF s # "" /\ CharAt(s, Len(s)) = " " THEN trim_end(SubSeq(s, 1, Len(s) - 1)) ELSE s
trim(s) == trim_end(trim_start(s))

\* str::split on a set of characters: the pieces between the separators
RECURSIVE split(_, _)
split(s, seps) ==
    LET at == { i \in 1..Len(s) : CharAt(s, i) \in seps }
    IN  IF at = {} THEN <<s>>
        ELSE LET i == CHOOSE j \in at : \A k \in at : j <= k
             IN  <<SubSeq(s, 1, i - 1)>> \o split(SubSeq(s, i + 1, Len(s)), seps)

\* ------------------------------------------------------- tools/shell.rs
BLOCKED_COMMANDS ==
    << "rm -rf /", "rm -rf /*", "mkfs", "dd if=", ":(){ :|:& };:", "> /dev/sda",
       "chmod -R 777 /", "fork bomb", "shutdown", "reboot", "halt", "init 0", "init 6" >>

WRITE_PATTERNS ==
    << "rm ", "rmdir", "mv ", "cp ", "mkdir", "touch ", "chmod", "chown", "chgrp", "ln ",
       "install ", "dd ", "mkfs", "fdisk", "parted", "mount", "umount", "kill", "killall",
       "pkill", "systemctl start", "systemctl stop", "systemctl restart",
       "systemctl enable", "systemctl disable", "docker rm", "docker stop", "docker kill",
       "apt ", "yay ", "pacman -S", "pacman -R", "pip install", "cargo install",
       "npm install", "git push", "git commit", "git reset", "git checkout", "git merge",
       "git rebase", "curl.*-X POST", "curl.*-X PUT", "curl.*-X DELETE", "wget ", "> ",
       ">> ", "tee ", "sed -i", "truncate" >>

SAFE_ENV_VARS == << "PATH", "HOME", "USER", "SHELL", "LANG", "LC_ALL", "TERM", "TZ" >>

\* ShellTool::is_blocked
is_blocked(cmd) ==
    LET lower == to_lowercase(cmd)
    IN  \E k \in DOMAIN BLOCKED_COMMANDS : contains(lower, BLOCKED_COMMANDS[k])

\* ShellTool::segment_is_write
segment_is_write(segment) ==
    LET seg == trim(segment)
    IN  IF seg = "" THEN FALSE
        ELSE IF contains(seg, "> ") \/ contains(seg, ">>") THEN TRUE
        ELSE LET seg_lower == to_lowercase(seg)
             IN  \E k \in DOMAIN WRITE_PATTERNS :
                    LET pat_lower == to_lowercase(WRITE_PATTERNS[k])
                    IN  \/ starts_with(seg_lower, pat_lower)
                        \/ starts_with(seg_lower, "sudo " \o pat_lower)
                        \/ contains(seg_lower, pat_lower)

\* ShellTool::is_write_command: the pipe segments, then the chain segments
is_write_command(cmd) ==
    LET trimmed == trim(cmd)
        pipes == split(trimmed, {"|"})
        chains == split(trimmed, {";", "&", "|"})
    IN  \/ \E i \in DOMAIN pipes : segment_is_write(trim(pipes[i]))
        \/ \E i \in DOMAIN chains : segment_is_write(trim(chains[i]))

WriteCheckRejectsAnyMode(mode, cmd) == is_write_command(cmd)
\* self.config.mode == ShellMode::ReadOnly && Self::is_write_command(cmd)
WriteCheckRejects(mode, cmd) == mode = "ReadOnly" /\ is_write_command(cmd)

\* an output is a sequence of code points, each named; len_utf8 is the number
\* of bytes of its UTF-8 encoding
CodePoints == { "a", "U+00E9", "U+1F600" }
len_utf8(c) == IF c = "a" THEN 1 ELSE IF c = "U+00E9" THEN 2 ELSE 4

\* str::len: the length in bytes
RECURSIVE ByteLen(_)
ByteLen(s) == IF s = <<>> THEN 0 ELSE len_utf8(Head(s)) + ByteLen(Tail(s))

\* str::is_char_boundary(n) for n <= len
is_char_boundary(s, n) == \E k \in 0..Len(s) : ByteLen(SubSeq(s, 1, k)) = n

\* &s[..n] where n is a char boundary
SliceTo(s, n) == SubSeq(s, 1, CHOOSE k \in 0..Len(s) : ByteLen(SubSeq(s, 1, k)) = n)

\* what truncate_output does: returns a String, the text it starts with and
\* whether the marker "[truncated: showing shown/total bytes]" follows, or
\* panics slicing the str
Returned(t, m, sh, tot) == [tag |-> "ok", text |-> t, marker |-> m, shown |-> sh, total |-> tot]
Panicked == [tag |-> "panic", text |-> <<>>, marker |-> FALSE, shown |-> 0, total |-> 0]
NoTrunc == [output |-> <<>>, max_bytes |-> 0,
            ret |-> [tag |-> "none", text |-> <<>>, marker |-> FALSE, shown |-> 0, total |-> 0]]

\* ShellTool::truncate_output
truncate_output(output, max_bytes) ==
    IF ByteLen(output) <= max_bytes THEN Returned(output, FALSE, 0, 0)
    ELSE IF ~is_char_boundary(output, max_bytes) THEN Panicked
    ELSE LET truncated == SliceTo(output, max_bytes)
             \* truncated.char_indices().last(): the offset and the code point
             i == ByteLen(SubSeq(truncated, 1, Len(truncated) - 1))
             kept == IF truncated # <<>>
                     THEN SliceTo(truncated, i + len_utf8(truncated[Len(truncated)]))
                     ELSE truncated
         IN  Returned(kept, TRUE, max_bytes, ByteLen(output))

\* the process environment: per variable, unset, set to a Unicode string, or
\* set to bytes that are not valid Unicode
EnvUnset == [set |-> FALSE, unicode |-> FALSE, val |-> ""]
EnvVal(v) == [set |-> TRUE, unicode |-> TRUE, val |-> v]
EnvNotUnicode == [set |-> TRUE, unicode |-> FALSE, val |-> "[bytes]"]

\* std::env::var(key).ok(): Some only when set and valid Unicode
env_var_ok(env, key) == env[key].set /\ env[key].unicode

\* ShellTool::filtered_env: the pairs handed to Command::envs after env_clear
filtered_env(env) ==
    LET keys == { SAFE_ENV_VARS[i] : i \in DOMAIN SAFE_ENV_VARS }
    IN  [k \in { key \in keys : env_var_ok(env, key) } |-> env[k].val]

confirmedPrefix(input) == starts_with(to_lowercase(trim(input)), "y")
\* input.trim().eq_ignore_ascii_case("y")
confirmed(input) == to_lowercase(trim(input)) = "y"

\* ShellConfig and the state of one execute() call
ShellModes == { "ReadOnly", "ReadWrite" }
NoShellOut ==
    [tag |-> "none", msg |-> "", code |-> 0, stdout |-> Panicked, stderr |-> Panicked]
ShellOk(so) == [tag |-> "Ok", msg |-> "", code |-> 0, stdout |-> so, stderr |-> Panicked]
ShellErr(m) == [tag |-> "Err", msg |-> m, code |-> 0, stdout |-> Panicked, stderr |-> Panicked]
ShellExitErr(c, so, se) == [tag |-> "Err", msg |-> "exit code", code |-> c, stdout |-> so, stderr |-> se]
ShellPanic == [tag |-> "Panic", msg |-> "", code |-> 0, stdout |-> Panicked, stderr |-> Panicked]
ShellState(p, m, rc, mb, e) ==
    [pc |-> p, mode |-> m, require_confirmation |-> rc, max_output_bytes |-> mb, env |-> e,
     args |-> EmptyArgs, prompted |-> 0, answered |-> FALSE, answer |-> "",
     spawned |-> 0, child_env |-> EmptyArgs, out |-> NoShellOut]
NoShell == ShellState("none", "ReadOnly", TRUE, 0, EmptyArgs)

DenyListMsg == "blocked: command is on the deny list"
ReadOnlyMsg ==
    "blocked: write operation not allowed in read-only mode. Start golem with --allow-write to enable write operations."
MissingCommandMsg == "missing required arg: command"
CancelledMsg == "cancelled by user"

\* the commands drawn: every blocklist entry as written, in upper case, and
\* after sudo with an argument after it, and commands that hold no blocklist
\* entry
BlockedVariants ==
    UNION { { BLOCKED_COMMANDS[k],
              to_uppercase(BLOCKED_COMMANDS[k]),
              "sudo " \o BLOCKED_COMMANDS[k] \o " now" } : k \in DOMAIN BLOCKED_COMMANDS }
OtherCommands ==
    { "echo hello", "ls /tmp", "pwd", "rm file", "RM file", "cat a | tee b", "echo a > b",
      "ls;rm |wc", "mkdir -p d && rmdir d", "curl -X POST http://h",
      "curl -s -X PUT http://h -d x", "ls && curl -X DELETE http://h", "cat skill.txt",
      "echo chmod", "  " }
Commands == BlockedVariants \cup OtherCommands
ShellArgs ==
    { [command |-> c] : c \in Commands } \cup { EmptyArgs, [cmd |-> "pwd"] }

\* the environments of the agent process
UnsafeEnvVars == { "ANTHROPIC_API_KEY", "LD_PRELOAD" }
SafeEnvVarSet == { SAFE_ENV_VARS[i] : i \in DOMAIN SAFE_ENV_VARS }
EnvNames == SafeEnvVarSet \cup UnsafeEnvVars
Environments ==
    { [n \in EnvNames |->
          IF n \notin S THEN EnvUnset
          ELSE IF n = bad THEN EnvNotUnicode
          ELSE EnvVal("value of " \o n)] :
        S \in { {}, {"PATH", "TZ", "LD_PRELOAD"}, EnvNames },
        bad \in { "", "PATH" } }

\* what the user types at the confirmation prompt, what the child writes
ConfirmInputs == { "y", " Y ", "n", "", "yes" }
ShellMaxOutputBytes == { 2 }
ShellOutputs == { <<>>, <<"a", "a">>, <<"a", "U+00E9">>, <<"a", "a", "a">> }
ShellErrOutputs == { <<>>, <<"a", "a", "a">> }
ExitCodes == { 0, 1 }

\* the outputs truncate_output is applied to
Outputs == SeqsUpTo(CodePoints, MaxChars)

\* ------------------------------------------------------- auth/storage.rs
\* auth/storage.rs Credential, auth/oauth.rs OAuthCredentials; NoCredential is
\* the None of an Option<Credential>
OAuth(a, r, e) == [variant |-> "OAuth", access |-> a, refresh |-> r, expires |-> e]
ApiKey(k) == [variant |-> "ApiKey", key |-> k]
NoCredential == [variant |-> "None"]

\* serde: the internally tagged JSON object of a Credential, and back
to_json(c) ==
    IF c.variant = "OAuth"
    THEN [type |-> "oauth", access |-> c.access, refresh |-> c.refresh, expires |-> c.expires]
    ELSE [type |-> "api_key", key |-> c.key]
from_json(j) ==
    IF j.type = "oauth" THEN OAuth(j.access, j.refresh, j.expires) ELSE ApiKey(j.key)

\* auth.json: missing, or a JSON object from providers to credentials
NoFile == [exists |-> FALSE, data |-> <<>>]
File(d) == [exists |-> TRUE, data |-> d]

\* AuthStorage::load: the HashMap<String, Credential> of the file
load(file) ==
    IF ~file.exists THEN <<>> ELSE [p \in DOMAIN file.data |-> from_json(file.data[p])]

\* AuthStorage::save: serde_json::to_string_pretty and fs::write
save(creds) == File([p \in DOMAIN creds |-> to_json(creds[p])])

\* HashMap::insert, HashMap::remove, HashMap::get(..).cloned()
HashMapInsertOnly(creds, p, c) == [q \in {p} |-> c]
HashMapInsert(creds, p, c) == [q \in DOMAIN creds \cup {p} |-> IF q = p THEN c ELSE creds[q]]
HashMapRemoveNothing(creds, p) == creds
HashMapRemove(creds, p) == [q \in DOMAIN creds \ {p} |-> creds[q]]
HashMapGet(creds, p) == IF p \in DOMAIN creds THEN creds[p] ELSE NoCredential

\* AuthStorage::get, set, remove: the credential read, the file written
get(file, provider) == HashMapGet(load(file), provider)
set(file, provider, credential) == save(HashMapInsert(load(file), provider, credential))
remove(file, provider) == save(HashMapRemove(load(file), provider))

IsExpiredStrictly(now, expires) == now > expires
\* OAuthCredentials::is_expired: now_ms() >= self.expires
is_expired(now, expires) == now >= expires

EnvKeyAny(v) == v.set /\ v.unicode
\* if let Ok(key) = std::env::var(env_var) && !key.is_empty()
EnvKeyUsable(v) == v.set /\ v.unicode /\ v.val # ""

\* oauth::refresh_token: the bundle made of a token response received at now;
\* times are counted in units of the five-minute safety margin
refreshed_bundle(now, data) ==
    OAuth(data.access_token, data.refresh_token, now + data.expires_in - 1)

\* Result<Option<String>> of get_api_key, Result<()> of set and remove,
\* Result<Option<Credential>> of get
KeySome(k) == [tag |-> "Some", key |-> k]
KeyNone == [tag |-> "None", key |-> ""]
KeyErr(m) == [tag |-> "Err", key |-> m]
UnitOk == [tag |-> "Ok", key |-> ""]
NoRet == [tag |-> "none", key |-> ""]
RefreshFailedMsg == "token refresh failed"
StaleOnRefreshErr(found) == KeySome(found.access)
\* super::oauth::refresh_token(&oauth.refresh).await?: the error is returned
ErrOnRefreshErr(found) == KeyErr(RefreshFailedMsg)

\* the call last made on the storage: its arguments, the credential it found,
\* the clock is_expired read, the refresh and save calls it made, its result
AuthCall(o, p, c) ==
    [op |-> o, provider |-> p, credential |-> c, found |-> NoCredential, at |-> 0,
     refreshes |-> 0, refreshed |-> "none", saves |-> 0, ret |-> NoRet, got |-> NoCredential]
NoAuthCall == AuthCall("none", "", NoCredential)
AuthState(p, f, e, n) ==
    [pc |-> p, file |-> f, env |-> e, now |-> n, prev |-> f, last |-> NoAuthCall]
NoAuth == AuthState("none", NoFile, EnvUnset, 0)

\* inputs: providers, the credentials the commands store, the values of the
\* environment variable, the token responses of the refresh endpoint
Providers == { "anthropic", "openai" }
StoredCredentials ==
    { ApiKey("sk-a"), ApiKey("sk-b"), OAuth("access-0", "refresh-0", 2),
      OAuth("access-0", "refresh-0", MaxNow + 1) }
EnvKeys == { EnvUnset, EnvVal(""), EnvVal("sk-from-env"), EnvNotUnicode }
TokenResponses ==
    { [access_token |-> "access-1", refresh_token |-> "refresh-1", expires_in |-> 1],
      [access_token |-> "access-2", refresh_token |-> "refresh-2", expires_in |-> 3] }

\* ------------------------------- AuthStorage under concurrent callers
\* set, remove, get and get_api_key take &self and no lock: a caller is a
\* thread holding the AuthStorage, or another golem process opened on the same
\* auth.json. Each fs::read_to_string and each fs::write is one step.
Callers == 1..MaxCallers

\* one call: its position, its arguments, the map its load() returned, the
\* credential it found, the refresh token it sent, the bundle whose access
\* token it returned, the clock at return, its result
VaultCaller(o, p, c) ==
    [pc |-> "load", op |-> o, provider |-> p, credential |-> c, creds |-> <<>>,
     found |-> NoCredential, sent |-> "", got |-> NoCredential, at |-> 0,
     ret |-> NoRet]
IdleCaller == [VaultCaller("none", "", NoCredential) EXCEPT !.pc = "idle"]

\* the file, the environment variable, the clock, the callers, the refresh
\* tokens the endpoint received and the bundles it answered with, in order
VaultState(f, e, n) ==
    [file |-> f, env |-> e, now |-> n, callers |-> [i \in Callers |-> IdleCaller],
     requests |-> <<>>, issued |-> <<>>]
NoVault == [file |-> NoFile, env |-> EnvUnset, now |-> 0, callers |-> <<>>,
            requests |-> <<>>, issued |-> <<>>]

\* what the first half of set and remove leaves in the local map
\* (creds.insert, creds.remove), written back by self.save(&creds)
updated(c) ==
    IF c.op = "remove" THEN HashMapRemove(c.creds, c.provider)
    ELSE HashMapInsert(c.creds, c.provider, c.credential)

\* get_api_key after self.get(provider)?: the caller's next position
resolved(c, found, env, now) ==
    IF found.variant = "ApiKey"
    THEN [c EXCEPT !.pc = "done", !.found = found, !.at = now,
                   !.ret = KeySome(found.key)]
    ELSE IF found.variant = "OAuth"
    THEN IF is_expired(now, found.expires)
         THEN [c EXCEPT !.pc = "refresh", !.found = found, !.sent = found.refresh]
         ELSE [c EXCEPT !.pc = "done", !.found = found, !.got = found, !.at = now,
                        !.ret = KeySome(found.access)]
    ELSE [c EXCEPT !.pc = "done", !.found = found, !.at = now,
                   !.ret = IF EnvKeyUsable(env) THEN KeySome(env.val) ELSE KeyNone]

\* inputs: the credentials set() is called with, the files the callers find
VaultCredentials == { ApiKey("sk-a"), OAuth("access-9", "refresh-9", MaxNow + 1) }
VaultFiles ==
    { NoFile, save(HashMapInsert(<<>>, "anthropic", OAuth("access-0", "refresh-0", 1))) }

\* ------------------------------------------- SqliteMemory, row by row
\* serde_json::to_string of a MemoryEntry: the externally tagged JSON object
entry_to_json(e) ==
    CASE e.kind = "Task" -> [Task |-> [content |-> e.content]]
      [] e.kind = "Iteration" -> [Iteration |-> [thought |-> e.thought, results |-> e.results]]
      [] e.kind = "Answer" -> [Answer |-> [thought |-> e.thought, content |-> e.content]]
\* serde_json::from_str of a row's entry column
entry_from_json(j) ==
    CASE "Task" \in DOMAIN j -> TaskEntry(j.Task.content)
      [] "Iteration" \in DOMAIN j -> IterationEntry(j.Iteration.thought, j.Iteration.results)
      [] "Answer" \in DOMAIN j -> AnswerEntry(j.Answer.thought, j.Answer.content)

\* the database: the rows of each table and, per table, the largest id ever
\* given (sqlite_sequence); the timestamp column is never read and is left out
EmptyTables == [memory |-> {}, session_history |-> {}]
Database(t, q) == [tables |-> t, seq |-> q]

\* INSERT into a table whose id is INTEGER PRIMARY KEY AUTOINCREMENT
Insert(d, table, columns) ==
    LET id == d.seq[table] + 1
    IN  Database([d.tables EXCEPT ![table] = @ \cup { [id |-> id, row |-> columns] }],
                 [d.seq EXCEPT ![table] = id])

DeleteFromAll(d, table) == Database(EmptyTables, d.seq)
\* DELETE FROM table
DeleteFrom(d, table) == Database([d.tables EXCEPT ![table] = {}], d.seq)

\* ORDER BY id ASC, ORDER BY id DESC
RECURSIVE OrderByIdAsc(_)
OrderByIdAsc(rows) ==
    IF rows = {} THEN <<>>
    ELSE LET r == CHOOSE r \in rows : \A q \in rows : r.id <= q.id
         IN  <<r>> \o OrderByIdAsc(rows \ {r})
RECURSIVE OrderByIdDesc(_)
OrderByIdDesc(rows) ==
    IF rows = {} THEN <<>>
    ELSE LET r == CHOOSE r \in rows : \A q \in rows : r.id >= q.id
         IN  <<r>> \o OrderByIdDesc(rows \ {r})

\* the width of usize and i64, scaled down from 64 bits
UsizeBits == 3
RECURSIVE Pow2(_)
Pow2(n) == IF n = 0 THEN 1 ELSE 2 * Pow2(n - 1)
\* limit as i64: the cast keeps the bits, so the upper half becomes negative
as_i64(n) == IF n >= Pow2(UsizeBits - 1) THEN n - Pow2(UsizeBits) ELSE n
\* LIMIT n of SQLite: a negative n means no limit
Limit(rows, n) ==
    IF n < 0 \/ n >= Len(rows) THEN rows ELSE SubSeq(rows, 1, n)

\* store, history, clear
store(d, entry) == Insert(d, "memory", entry_to_json(entry))
history(d) ==
    LET rows == OrderByIdAsc(d.tables.memory)
    IN  [i \in 1..Len(rows) |-> entry_from_json(rows[i].row)]
clear(d) == DeleteFrom(d, "memory")

\* store_session, session_history, clear_session
store_session(d, entry) ==
    Insert(d, "session_history", [task |-> entry.task, answer |-> entry.answer])
session_history_oldest(d, limit) ==
    LET rows == Limit(OrderByIdAsc(d.tables.session_history), as_i64(limit))
    IN  [i \in 1..Len(rows) |-> SessionEntry(rows[i].row.task, rows[i].row.answer)]
\* SELECT task, answer FROM (SELECT task, answer, id FROM session_history
\* ORDER BY id DESC LIMIT ?1) ORDER BY id ASC
session_history(d, limit) ==
    LET inner == Limit(OrderByIdDesc(d.tables.session_history), as_i64(limit))
        rows == OrderByIdAsc({ inner[i] : i \in 1..Len(inner) })
    IN  [i \in 1..Len(rows) |-> SessionEntry(rows[i].row.task, rows[i].row.answer)]
clear_session(d) == DeleteFrom(d, "session_history")

\* the call last made on the memory and what it returned; the session entries
\* stored so far, in order, and how many of them a clear_session has removed
NoDbCall == [op |-> "none", limit |-> 0, query |-> "", entries |-> <<>>, sessions |-> <<>>]
DbState(p, d, l, c) ==
    [pc |-> p, data |-> d, prev |-> d, last |-> NoDbCall, log |-> l, cut |-> c]
NoDb == DbState("none", Database(EmptyTables, [memory |-> 0, session_history |-> 0]), <<>>, 0)

\* inputs: the entries and session entries stored, the limits asked for, and
\* the session rows a database file can hold when it is opened
DbEntries ==
    { IterationEntry("look", << ToolResult("shell", Success("hello")) >>),
      AnswerEntry("found", "42") }
\* serde_json's text of a JSON string: quoted, with " and \ escaped
RECURSIVE escape(_)
escape(s) ==
    IF s = "" THEN ""
    ELSE LET c == CharAt(s, 1)
         IN  (IF c = "\"" THEN "\\\"" ELSE IF c = "\\" THEN "\\\\" ELSE c)
                 \o escape(SubSeq(s, 2, Len(s)))
json_string(s) == "\"" \o escape(s) \o "\""
\* the text of a ToolResult and of a list of them
result_text(r) ==
    "{\"tool\":" \o json_string(r.tool) \o ",\"outcome\":{\"" \o r.outcome.tag \o "\":"
        \o json_string(r.outcome.text) \o "}}"
RECURSIVE results_text(_)
results_text(rs) ==
    IF rs = <<>> THEN ""
    ELSE result_text(Head(rs)) \o (IF Len(rs) > 1 THEN "," ELSE "") \o results_text(Tail(rs))
\* the entry column: the compact text serde_json::to_string writes
json_text(j) ==
    CASE "Task" \in DOMAIN j ->
           "{\"Task\":{\"content\":" \o json_string(j.Task.content) \o "}}"
      [] "Iteration" \in DOMAIN j ->
           "{\"Iteration\":{\"thought\":" \o json_string(j.Iteration.thought)
               \o ",\"results\":[" \o results_text(j.Iteration.results) \o "]}}"
      [] "Answer" \in DOMAIN j ->
           "{\"Answer\":{\"thought\":" \o json_string(j.Answer.thought)
               \o ",\"content\":" \o json_string(j.Answer.content) \o "}}"

\* the LIKE operator of SQLite, no ESCAPE clause: % matches any run of
\* characters, _ any one character, a letter matches in either case
RECURSIVE like_at(_, _, _, _)
like_at(pattern, i, txt, j) ==
    IF i > Len(pattern) THEN j > Len(txt)
    ELSE IF CharAt(pattern, i) = "%"
    THEN \E k \in j..(Len(txt) + 1) : like_at(pattern, i + 1, txt, k)
    ELSE /\ j <= Len(txt)
         /\ \/ CharAt(pattern, i) = "_"
            \/ to_lowercase(CharAt(pattern, i)) = to_lowercase(CharAt(txt, j))
         /\ like_at(pattern, i + 1, txt, j + 1)
like(txt, pattern) == like_at(pattern, 1, txt, 1)

\* the queries recall is called with
Queries == { "found", "answer", "%", "4_" }
\* entry LIKE ?1 with the pattern format!("%{query}%"), for the rows and the
\* queries drawn
liked ==
    [q \in Queries |->
        { j \in { entry_to_json(e) : e \in DbEntries } : like(json_text(j), "%" \o q \o "%") }]
\* SELECT entry FROM memory WHERE entry LIKE ?1 ORDER BY id ASC
recall(d, query) ==
    LET hit(r) == r.row \in liked[query]
        rows == SelectSeq(OrderByIdAsc(d.tables.memory), hit)
    IN  [i \in 1..Len(rows) |-> entry_from_json(rows[i].row)]

DbSessionEntries == { SessionEntry("task one", "42"), SessionEntry("task two", "done") }
Limits == 0..(Pow2(UsizeBits) - 1)
OpenedDatabases ==
    { Database(EmptyTables, [memory |-> 0, session_history |-> 0]),
      store_session(Database(EmptyTables, [memory |-> 0, session_history |-> 0]),
                    SessionEntry("task zero", "0")) }

\* ------------------------------------------------ ToolRegistry, call by call
\* a registered tool: what its name() and description() return
Tool(n, d) == [name |-> n, description |-> d]
\* thinker/mod.rs ToolDescription
ToolDescription(n, d) == [name |-> n, description |-> d]
NoTools == [n \in {} |-> Tool("", "")]

\* register: insert(tool.name().to_string(), tool); unregister: remove(name)
register(tools, tool) == HashMapInsert(tools, tool.name, tool)
unregister(tools, name) == HashMapRemove(tools, name)

\* descriptions: values().map(..).collect(), in the order the HashMap
\* iterates, which ord names
descriptions(tools, ord) ==
    [i \in 1..Len(ord) |-> ToolDescription(tools[ord[i]].name, tools[ord[i]].description)]
IterationOrders(tools) ==
    { ord \in [1..Cardinality(DOMAIN tools) -> DOMAIN tools] :
        \A i, j \in DOMAIN ord : ord[i] = ord[j] => i = j }

WriteGuardGrantedAtOnce(flight) == TRUE
\* self.tools.write().await resolves when no read guard is alive
WriteGuardGranted(flight) == flight = {}

\* the write call that waits for the lock or holds it
NoWriter == [op |-> "none", name |-> "", tool |-> Tool("", "")]
\* the call that returned last: execute's name and ToolResult, descriptions'
\* list, and whether the looked-up name was registered at the lookup
NoRegCall ==
    [op |-> "none", name |-> "", known |-> FALSE, ran |-> Tool("", ""), ret |-> NoResult,
     listed |-> <<>>]
\* tools: the map; flight: the executes that hold a read guard, each with the
\* tool it looked up; names and latest: the names registered and not
\* unregistered since, and the tool last registered under each name
RegState(p) ==
    [pc |-> p, tools |-> NoTools, flight |-> {}, writer |-> NoWriter, started |-> 0,
     writes |-> 0, last |-> NoRegCall, names |-> {}, latest |-> NoTools]
NoReg == RegState("none")

\* inputs: the tools registered, the names unregistered and executed, and what
\* a tool's own execute returns
RegistryTools == { Tool("shell", "v1"), Tool("shell", "v2"), Tool("echo", "e") }
RegisteredNames == { t.name : t \in RegistryTools }
ExecutedNames == RegisteredNames \cup { "nonexistent" }
ToolRunOutcomes(tool) == { Success(tool.description), Error("boom") }
AllToolRunOutcomes == UNION { ToolRunOutcomes(t) : t \in RegistryTools }

NoContext == [task |-> "", history |-> <<>>, available_tools |-> {}]
NoRun == [tag |-> "none", text |-> ""]
IdleSwap == [pc |-> "idle", new |-> 0]

EngineInit ==
    /\ memory = <<>>
    /\ session = <<>>
    /\ registry = {"shell"}
    /\ thinker = 1
    /\ readers = 0
    /\ guard = 0
    /\ swap = IdleSwap
    /\ session_usage = ZeroUsage
    /\ pc = "idle"
    /\ task = ""
    /\ iteration = 0
    /\ context = NoContext
    /\ step = NoStep
    /\ slots = <<>>
    /\ order = <<>>
    /\ result = NoRun
    /\ runs = 0
    /\ produced = <<>>
    /\ replies = 0
    /\ usageCount = 0
    /\ finished = 0
    /\ sessionAtRun = <<>>

Init ==
    /\ EngineInit
    /\ text = NoText
    /\ parsed = NotParsed
    /\ llm = NoLlm
    /\ shell = NoShell
    /\ trunc = NoTrunc
    /\ auth = NoAuth
    /\ db = NoDb
    /\ tool_registry = NoReg
    /\ vault = NoVault

\* run(task) is called: the future starts at memory.clear()
Run(t) ==
    /\ pc = "idle"
    /\ runs < MaxRuns
    /\ pc' = "clear"
    /\ task' = t
    /\ iteration' = 0
    /\ runs' = runs + 1
    /\ result' = NoRun
    /\ produced' = <<>>
    /\ replies' = 0
    /\ context' = NoContext
    /\ step' = NoStep
    /\ slots' = <<>>
    /\ order' = <<>>
    /\ sessionAtRun' = session
    /\ UNCHANGED <<offEngine, memory, session, registry, thinker, readers, guard, swap,
                   session_usage, usageCount, finished>>

\* self.memory.clear().await?
Clear ==
    /\ pc = "clear"
    /\ memory' = MemoryClear(memory)
    /\ pc' = "task"
    /\ UNCHANGED <<offEngine, sessionAtRun, session, registry, thinker, readers, guard, swap,
                   session_usage, task, iteration, context, step, slots, order,
                   result, runs, produced, replies, usageCount, finished>>

\* self.memory.store(MemoryEntry::Task { content: task })
StoreTask ==
    /\ pc = "task"
    /\ memory' = MemoryStore(memory, TaskEntry(task))
    /\ pc' = "loop"
    /\ UNCHANGED <<offEngine, sessionAtRun, session, registry, thinker, readers, guard, swap,
                   session_usage, task, iteration, context, step, slots, order,
                   result, runs, produced, replies, usageCount, finished>>

\* loop head, iteration in range: build the Context
BuildContext ==
    /\ pc = "loop"
    /\ LoopContinues(iteration)
    /\ context' = [task |-> task,
                   history |-> MemoryHistory(memory),
                   available_tools |-> RegistryDescriptions(registry)]
    /\ pc' = "lease"
    /\ UNCHANGED <<offEngine, sessionAtRun, memory, session, registry, thinker, readers, guard, swap,
                   session_usage, task, iteration, step, slots, order,
                   result, runs, produced, replies, usageCount, finished>>

\* loop exhausted: bail!("max iterations ({}) reached")
MaxIterationsReached ==
    /\ pc = "loop"
    /\ ~LoopContinues(iteration)
    /\ result' = [tag |-> "err", text |-> MaxIterMsg]
    /\ pc' = "idle"
    /\ UNCHANGED <<offEngine, sessionAtRun, memory, session, registry, thinker, readers, guard, swap,
                   session_usage, task, iteration, context, step, slots, order,
                   runs, produced, replies, usageCount, finished>>

\* let thinker = self.thinker.read().await; the call to next_step starts
AcquireRead ==
    /\ pc = "lease"
    /\ ReadLeaseAvailable(swap)
    /\ readers' = readers + 1
    /\ guard' = thinker
    /\ replies' = replies + 1
    /\ pc' = "next_step"
    /\ UNCHANGED <<offEngine, sessionAtRun, memory, session, registry, thinker, swap,
                   session_usage, task, iteration, context, step, slots, order,
                   result, runs, produced, usageCount, finished>>

\* next_step returned Ok(StepResult {s, u}); the guard is dropped, the usage is
\* accumulated and the step is matched
NextStepOk(s, u) ==
    /\ pc = "next_step"
    /\ readers' = ReleaseRead(readers)
    /\ guard' = 0
    /\ session_usage' = IF u.some THEN UsageAdd(session_usage, u.usage) ELSE session_usage
    /\ usageCount' = IF u.some THEN usageCount + 1 ELSE usageCount
    /\ produced' = Append(produced, s)
    /\ step' = s
    /\ IF s.kind = "Act"
       THEN /\ slots' = [i \in 1..Len(s.calls) |-> PendingSlot]
            /\ order' = <<>>
            /\ pc' = "tools"
       ELSE /\ slots' = <<>>
            /\ order' = <<>>
            /\ pc' = "answer"
    /\ UNCHANGED <<offEngine, sessionAtRun, memory, session, registry, thinker, swap, task, iteration,
                   context, result, runs, replies, finished>>

\* next_step returned Err: the ? operator returns it from run
NextStepErr ==
    /\ pc = "next_step"
    /\ readers' = ReleaseRead(readers)
    /\ guard' = 0
    /\ result' = [tag |-> "err", text |-> ThinkerErrMsg]
    /\ pc' = "idle"
    /\ UNCHANGED <<offEngine, sessionAtRun, memory, session, registry, thinker, swap, session_usage,
                   task, iteration, context, step, slots, order, runs,
                   produced, replies, usageCount, finished>>

\* the future of call i completes inside its timeout: Ok(result) => result
ToolComplete(i, out) ==
    /\ pc = "tools"
    /\ i \in 1..Len(slots)
    /\ slots[i].state = "pending"
    /\ out \in ToolOutcomes(step.calls[i])
    /\ slots' = [slots EXCEPT ![i] = ReadySlot(RegistryExecute(registry, step.calls[i], out))]
    /\ order' = Append(order, [i |-> i, timeout |-> FALSE])
    /\ UNCHANGED <<offEngine, sessionAtRun, memory, session, registry, thinker, readers, guard, swap,
                   session_usage, pc, task, iteration, context, step,
                   result, runs, produced, replies, usageCount, finished>>

\* the timeout of call i elapses first; only a registered tool can still be
\* running, the lookup of an unknown name returns at the first poll
ToolTimeout(i) ==
    /\ pc = "tools"
    /\ i \in 1..Len(slots)
    /\ slots[i].state = "pending"
    /\ step.calls[i].tool \in registry
    /\ slots' = TimeoutSlot(slots, i, step.calls[i])
    /\ order' = Append(order, [i |-> i, timeout |-> TRUE])
    /\ UNCHANGED <<offEngine, sessionAtRun, memory, session, registry, thinker, readers, guard, swap,
                   session_usage, pc, task, iteration, context, step,
                   result, runs, produced, replies, usageCount, finished>>

\* join_all resolved; self.memory.store(MemoryEntry::Iteration {..}); next loop
StoreIteration ==
    /\ pc = "tools"
    /\ JoinAllResolved(slots)
    /\ memory' = MemoryStore(memory, IterationEntry(step.thought, JoinAll(slots, order)))
    /\ iteration' = iteration + 1
    /\ slots' = <<>>
    /\ pc' = "loop"
    /\ UNCHANGED <<offEngine, sessionAtRun, order, session, registry, thinker, readers, guard, swap,
                   session_usage, task, context, step,
                   result, runs, produced, replies, usageCount, finished>>

\* Step::Finish arm: store the Answer entry and return Ok(answer)
StoreAnswer ==
    /\ pc = "answer"
    /\ memory' = MemoryStore(memory, AnswerEntry(step.thought, step.answer))
    /\ result' = [tag |-> "ok", text |-> step.answer]
    /\ finished' = finished + 1
    /\ pc' = "idle"
    /\ UNCHANGED <<offEngine, sessionAtRun, session, registry, thinker, readers, guard, swap,
                   session_usage, task, iteration, context, step, slots, order,
                   runs, produced, replies, usageCount>>

\* main.rs: tokio::select! drops the future of run on ctrl_c; the future can
\* be dropped where it is suspended: waiting for the lease, in next_step, or
\* in join_all
Cancel ==
    /\ pc \in {"lease", "next_step", "tools"}
    /\ readers' = 0
    /\ guard' = 0
    /\ result' = [tag |-> "cancelled", text |-> ""]
    /\ slots' = <<>>
    /\ order' = <<>>
    /\ pc' = "idle"
    /\ UNCHANGED <<offEngine, sessionAtRun, memory, session, registry, thinker, swap, session_usage,
                   task, iteration, context, step, runs, produced, replies,
                   usageCount, finished>>

\* set_thinker(new) is called: it queues for the write lock
SetThinkerCall(new) ==
    /\ swap.pc = "idle"
    /\ new # thinker
    /\ swap' = [pc |-> "waiting", new |-> new]
    /\ UNCHANGED <<offEngine, sessionAtRun, memory, session, registry, thinker, readers, guard,
                   session_usage, pc, task, iteration, context, step, slots,
                   order, result, runs, produced, replies, usageCount, finished>>

\* *self.thinker.write().await = thinker
SetThinkerWrite ==
    /\ swap.pc = "waiting"
    /\ WriteLeaseAvailable(readers)
    /\ thinker' = swap.new
    /\ swap' = IdleSwap
    /\ UNCHANGED <<offEngine, sessionAtRun, memory, session, registry, readers, guard,
                   session_usage, pc, task, iteration, context, step, slots,
                   order, result, runs, produced, replies, usageCount, finished>>

Next ==
    \/ \E t \in Tasks : Run(t)
    \/ Clear
    \/ StoreTask
    \/ BuildContext
    \/ MaxIterationsReached
    \/ AcquireRead
    \/ \E s \in Steps, u \in Usages : NextStepOk(s, u)
    \/ NextStepErr
    \/ \E i \in CallIndices, out \in AllToolOutcomes : ToolComplete(i, out)
    \/ \E i \in CallIndices : ToolTimeout(i)
    \/ StoreIteration
    \/ StoreAnswer
    \/ Cancel
    \/ \E new \in ThinkerIds : SetThinkerCall(new)
    \/ SetThinkerWrite

Spec == Init /\ [][Next]_vars

\* ------------------------------------- parse_response on every response text
InitParse ==
    /\ EngineInit
    /\ text \in Texts
    /\ parsed = NotParsed
    /\ llm = NoLlm
    /\ shell = NoShell
    /\ trunc = NoTrunc
    /\ auth = NoAuth
    /\ db = NoDb
    /\ tool_registry = NoReg
    /\ vault = NoVault

\* let step = parse_response(&text)
Parse ==
    /\ parsed.tag = "none"
    /\ parsed' = ParseResponse(text)
    /\ UNCHANGED <<offParse, text>>

NextParse == Parse

SpecParse == InitParse /\ [][NextParse]_vars

\* -------------------------------- one next_step call of the AnthropicThinker
InitLlm ==
    /\ EngineInit
    /\ text = NoText
    /\ parsed = NotParsed
    /\ llm \in { LlmState("get_api_key", ctx) : ctx \in LlmContexts }
    /\ shell = NoShell
    /\ trunc = NoTrunc
    /\ auth = NoAuth
    /\ db = NoDb
    /\ tool_registry = NoReg
    /\ vault = NoVault

\* get_api_key returned Ok(Some(key)); the prompt and the messages are built
GetApiKeyOk ==
    /\ llm.pc = "get_api_key"
    /\ llm' = [llm EXCEPT !.pc = "call_api",
                          !.system = build_react_system_prompt(llm.context.available_tools),
                          !.messages = build_messages(llm.context),
                          !.total_usage = ZeroUsage]
    /\ UNCHANGED offLlm

\* get_api_key failed, or returned Ok(None): no Anthropic credentials found
GetApiKeyErr ==
    /\ llm.pc = "get_api_key"
    /\ llm' = [llm EXCEPT !.pc = "done", !.out = LlmErr("no credentials")]
    /\ UNCHANGED offLlm

\* call_api failed: transport error, HTTP status, empty response
CallApiErr ==
    /\ llm.pc = "call_api"
    /\ llm' = ReturnCallApiErr([llm EXCEPT !.calls = @ + 1,
                                           !.sent = Append(@, llm.messages),
                                           !.systems = Append(@, llm.system),
                                           !.outcomes = Append(@, "err")],
                               "Anthropic API error")
    /\ UNCHANGED offLlm

\* call_api returned text t with usage u; the usage is added and t is parsed
CallApiOk(t, u) ==
    /\ llm.pc = "call_api"
    /\ LET total == IF u.some THEN UsageAdd(llm.total_usage, u.usage) ELSE llm.total_usage
           p == ParseResponse(t)
           got == [llm EXCEPT !.calls = @ + 1,
                              !.sent = Append(@, llm.messages),
                              !.systems = Append(@, llm.system),
                              !.outcomes = Append(@, "ok"),
                              !.raws = Append(@, t),
                              !.used = Append(@, u),
                              !.total_usage = total]
           pushed == [got EXCEPT !.messages =
                                     @ \o << Message("assistant", "raw", "", <<>>, t),
                                             Message("user", "correction", PARSE_RETRY_PROMPT,
                                                     <<>>, NoText) >>,
                                 !.attempt = @ + 1]
       IN  llm' =
             IF p.tag = "ok"
             THEN [got EXCEPT !.pc = "done", !.out = LlmOk(p.step, CombinedUsage(total))]
             ELSE IF RetryAllowed(llm.attempt)
             THEN IF AttemptInRange(llm.attempt + 1)
                  THEN pushed
                  ELSE [pushed EXCEPT !.pc = "done",
                                      !.out = LlmErr("unexpected: parse retry loop exited without result")]
             ELSE [got EXCEPT !.pc = "done", !.out = LlmErr(p.msg)]
    /\ UNCHANGED offLlm

NextLlm ==
    \/ GetApiKeyOk
    \/ GetApiKeyErr
    \/ CallApiErr
    \/ \E t \in LlmTexts, u \in LlmUsages : CallApiOk(t, u)

SpecLlm == InitLlm /\ [][NextLlm]_vars

\* ------------------------------------------- one ShellTool::execute call
InitShell ==
    /\ EngineInit
    /\ text = NoText
    /\ parsed = NotParsed
    /\ llm = NoLlm
    /\ shell \in { ShellState("idle", m, rc, mb, e) :
                     m \in ShellModes, rc \in BOOLEAN, mb \in ShellMaxOutputBytes,
                     e \in Environments }
    /\ trunc = NoTrunc
    /\ auth = NoAuth
    /\ db = NoDb
    /\ tool_registry = NoReg
    /\ vault = NoVault

\* execute(args) up to the confirmation prompt: the command argument, the
\* deny list, the write check
ShellExecute(args) ==
    /\ shell.pc = "idle"
    /\ shell' =
         LET called == [shell EXCEPT !.args = args]
         IN  IF "command" \notin DOMAIN args
             THEN [called EXCEPT !.pc = "done", !.out = ShellErr(MissingCommandMsg)]
             ELSE IF is_blocked(args.command)
             THEN [called EXCEPT !.pc = "done", !.out = ShellErr(DenyListMsg)]
             ELSE IF WriteCheckRejects(shell.mode, args.command)
             THEN [called EXCEPT !.pc = "done", !.out = ShellErr(ReadOnlyMsg)]
             ELSE IF shell.require_confirmation
             THEN [called EXCEPT !.pc = "confirm", !.prompted = @ + 1]
             ELSE [called EXCEPT !.pc = "work_dir"]
    /\ UNCHANGED offShell

\* Self::confirm(cmd)? read a line
ShellConfirm(input) ==
    /\ shell.pc = "confirm"
    /\ shell' = IF confirmed(input)
                THEN [shell EXCEPT !.pc = "work_dir", !.answered = TRUE, !.answer = input]
                ELSE [shell EXCEPT !.pc = "done", !.answered = TRUE, !.answer = input,
                                   !.out = ShellErr(CancelledMsg)]
    /\ UNCHANGED offShell

\* Self::confirm(cmd)? failed on stdout or stdin
ShellConfirmErr ==
    /\ shell.pc = "confirm"
    /\ shell' = [shell EXCEPT !.pc = "done", !.out = ShellErr("io error")]
    /\ UNCHANGED offShell

\* the working directory exists or was created
ShellWorkDirOk ==
    /\ shell.pc = "work_dir"
    /\ shell' = [shell EXCEPT !.pc = "spawn"]
    /\ UNCHANGED offShell

\* create_dir_all(work_dir).await? failed
ShellWorkDirErr ==
    /\ shell.pc = "work_dir"
    /\ shell' = [shell EXCEPT !.pc = "done", !.out = ShellErr("io error")]
    /\ UNCHANGED offShell

\* Command::new("sh") ... env_clear().envs(env_vars).output(): the child runs
ShellSpawn ==
    /\ shell.pc = "spawn"
    /\ shell' = [shell EXCEPT !.pc = "running",
                              !.spawned = @ + 1,
                              !.child_env = filtered_env(shell.env)]
    /\ UNCHANGED offShell

\* output().await? failed to spawn sh
ShellSpawnErr ==
    /\ shell.pc = "spawn"
    /\ shell' = [shell EXCEPT !.pc = "done", !.out = ShellErr("io error")]
    /\ UNCHANGED offShell

\* the child exited with code c having written so and se
ShellExit(c, so, se) ==
    /\ shell.pc = "running"
    /\ LET tso == truncate_output(so, shell.max_output_bytes)
           tse == truncate_output(se, shell.max_output_bytes)
       IN  shell' =
             [shell EXCEPT !.pc = "done",
                           !.out = IF tso.tag = "panic" THEN ShellPanic
                                   ELSE IF c = 0 THEN ShellOk(tso)
                                   ELSE IF tse.tag = "panic" THEN ShellPanic
                                   ELSE ShellExitErr(c, tso, tse)]
    /\ UNCHANGED offShell

NextShell ==
    \/ \E args \in ShellArgs : ShellExecute(args)
    \/ \E input \in ConfirmInputs : ShellConfirm(input)
    \/ ShellConfirmErr
    \/ ShellWorkDirOk
    \/ ShellWorkDirErr
    \/ ShellSpawn
    \/ ShellSpawnErr
    \/ \E c \in ExitCodes, so \in ShellOutputs, se \in ShellErrOutputs : ShellExit(c, so, se)

SpecShell == InitShell /\ [][NextShell]_vars

\* --------------------------------- truncate_output on every output and bound
InitTrunc ==
    /\ EngineInit
    /\ text = NoText
    /\ parsed = NotParsed
    /\ llm = NoLlm
    /\ shell = NoShell
    /\ trunc \in { [NoTrunc EXCEPT !.output = s, !.max_bytes = n] :
                     s \in Outputs, n \in 0..MaxBytes }
    /\ auth = NoAuth
    /\ db = NoDb
    /\ tool_registry = NoReg
    /\ vault = NoVault

\* Self::truncate_output(&stdout, self.config.max_output_bytes)
Truncate ==
    /\ trunc.ret.tag = "none"
    /\ trunc' = [trunc EXCEPT !.ret = truncate_output(trunc.output, trunc.max_bytes)]
    /\ UNCHANGED offTrunc

NextTrunc == Truncate

SpecTrunc == InitTrunc /\ [][NextTrunc]_vars

\* ----------------------------------- calls on one AuthStorage, one at a time
InitAuth ==
    /\ EngineInit
    /\ text = NoText
    /\ parsed = NotParsed
    /\ llm = NoLlm
    /\ shell = NoShell
    /\ trunc = NoTrunc
    /\ auth \in { AuthState("idle", NoFile, e, 1) : e \in EnvKeys }
    /\ db = NoDb
    /\ tool_registry = NoReg
    /\ vault = NoVault

\* the wall clock advances
AuthTick ==
    /\ auth.pc = "idle"
    /\ auth.now < MaxNow
    /\ auth' = [auth EXCEPT !.now = @ + 1]
    /\ UNCHANGED offAuth

\* storage.get(provider)
AuthGet(p) ==
    /\ auth.pc = "idle"
    /\ auth' = [auth EXCEPT !.prev = auth.file,
                            !.last = [AuthCall("get", p, NoCredential) EXCEPT
                                         !.ret = UnitOk, !.got = get(auth.file, p)]]
    /\ UNCHANGED offAuth

\* storage.set(provider, credential)
AuthSet(p, c) ==
    /\ auth.pc = "idle"
    /\ auth' = [auth EXCEPT !.prev = auth.file,
                            !.file = set(auth.file, p, c),
                            !.last = [AuthCall("set", p, c) EXCEPT !.ret = UnitOk, !.saves = 1]]
    /\ UNCHANGED offAuth

\* storage.remove(provider)
AuthRemove(p) ==
    /\ auth.pc = "idle"
    /\ auth' = [auth EXCEPT !.prev = auth.file,
                            !.file = remove(auth.file, p),
                            !.last = [AuthCall("remove", p, NoCredential) EXCEPT
                                         !.ret = UnitOk, !.saves = 1]]
    /\ UNCHANGED offAuth

\* storage.get_api_key(provider, env_var) up to its return or to the await of
\* refresh_token
AuthGetApiKey(p) ==
    /\ auth.pc = "idle"
    /\ LET cred == get(auth.file, p)
           call == [AuthCall("get_api_key", p, NoCredential) EXCEPT
                       !.found = cred, !.at = auth.now]
       IN  auth' =
             IF cred.variant = "ApiKey"
             THEN [auth EXCEPT !.prev = auth.file,
                               !.last = [call EXCEPT !.ret = KeySome(cred.key)]]
             ELSE IF cred.variant = "OAuth"
             THEN IF is_expired(auth.now, cred.expires)
                  THEN [auth EXCEPT !.pc = "refresh",
                                    !.prev = auth.file,
                                    !.last = [call EXCEPT !.refreshes = 1]]
                  ELSE [auth EXCEPT !.prev = auth.file,
                                    !.last = [call EXCEPT !.ret = KeySome(cred.access)]]
             ELSE IF EnvKeyUsable(auth.env)
             THEN [auth EXCEPT !.prev = auth.file,
                               !.last = [call EXCEPT !.ret = KeySome(auth.env.val)]]
             ELSE [auth EXCEPT !.prev = auth.file, !.last = [call EXCEPT !.ret = KeyNone]]
    /\ UNCHANGED offAuth

\* refresh_token returned a bundle: it is stored and its access token returned
AuthRefreshOk(data) ==
    /\ auth.pc = "refresh"
    /\ LET refreshed == refreshed_bundle(auth.now, data)
       IN  auth' = [auth EXCEPT !.pc = "idle",
                                !.file = set(auth.file, auth.last.provider, refreshed),
                                !.last = [auth.last EXCEPT !.saves = 1,
                                                           !.refreshed = "ok",
                                                           !.got = refreshed,
                                                           !.ret = KeySome(refreshed.access)]]
    /\ UNCHANGED offAuth

\* refresh_token(..).await? failed
AuthRefreshErr ==
    /\ auth.pc = "refresh"
    /\ auth' = [auth EXCEPT !.pc = "idle",
                            !.last = [auth.last EXCEPT !.refreshed = "err",
                                                       !.ret = ErrOnRefreshErr(auth.last.found)]]
    /\ UNCHANGED offAuth

\* the clock advances while refresh_token is awaited
AuthRefreshTick ==
    /\ auth.pc = "refresh"
    /\ auth.now < MaxNow
    /\ auth' = [auth EXCEPT !.now = @ + 1]
    /\ UNCHANGED offAuth

NextAuth ==
    \/ AuthTick
    \/ \E p \in Providers : AuthGet(p)
    \/ \E p \in Providers, c \in StoredCredentials : AuthSet(p, c)
    \/ \E p \in Providers : AuthRemove(p)
    \/ \E p \in Providers : AuthGetApiKey(p)
    \/ \E data \in TokenResponses : AuthRefreshOk(data)
    \/ AuthRefreshErr
    \/ AuthRefreshTick

SpecAuth == InitAuth /\ [][NextAuth]_vars

\* ------------------------------------------------- calls on a SqliteMemory
\* SqliteMemory::new(path): the tables are created if they do not exist
InitDb ==
    /\ EngineInit
    /\ text = NoText
    /\ parsed = NotParsed
    /\ llm = NoLlm
    /\ shell = NoShell
    /\ trunc = NoTrunc
    /\ auth = NoAuth
    /\ db \in { DbState("open", d, session_history(d, 0 - 1 + Pow2(UsizeBits - 1)), 0) :
                  d \in OpenedDatabases }
    /\ tool_registry = NoReg
    /\ vault = NoVault

DbStore(entry) ==
    /\ db.pc = "open"
    /\ db.data.seq.memory < MaxRows
    /\ db' = [db EXCEPT !.data = store(db.data, entry),
                        !.prev = db.data,
                        !.last = [NoDbCall EXCEPT !.op = "store"]]
    /\ UNCHANGED offDb

DbHistory ==
    /\ db.pc = "open"
    /\ db' = [db EXCEPT !.prev = db.data,
                        !.last = [NoDbCall EXCEPT !.op = "history",
                                                  !.entries = history(db.data)]]
    /\ UNCHANGED offDb

DbRecall(query) ==
    /\ db.pc = "open"
    /\ db' = [db EXCEPT !.prev = db.data,
                        !.last = [NoDbCall EXCEPT !.op = "recall",
                                                  !.query = query,
                                                  !.entries = recall(db.data, query)]]
    /\ UNCHANGED offDb

DbClear ==
    /\ db.pc = "open"
    /\ db' = [db EXCEPT !.data = clear(db.data),
                        !.prev = db.data,
                        !.last = [NoDbCall EXCEPT !.op = "clear"]]
    /\ UNCHANGED offDb

DbStoreSession(entry) ==
    /\ db.pc = "open"
    /\ db.data.seq.session_history < MaxRows
    /\ db' = [db EXCEPT !.data = store_session(db.data, entry),
                        !.prev = db.data,
                        !.last = [NoDbCall EXCEPT !.op = "store_session"],
                        !.log = Append(@, entry)]
    /\ UNCHANGED offDb

DbSessionHistory(limit) ==
    /\ db.pc = "open"
    /\ db' = [db EXCEPT !.prev = db.data,
                        !.last = [NoDbCall EXCEPT !.op = "session_history",
                                                  !.limit = limit,
                                                  !.sessions = session_history(db.data, limit)]]
    /\ UNCHANGED offDb

DbClearSession ==
    /\ db.pc = "open"
    /\ db' = [db EXCEPT !.data = clear_session(db.data),
                        !.prev = db.data,
                        !.last = [NoDbCall EXCEPT !.op = "clear_session"],
                        !.cut = Len(db.log)]
    /\ UNCHANGED offDb

NextDb ==
    \/ \E entry \in DbEntries : DbStore(entry)
    \/ DbHistory
    \/ DbClear
    \/ \E query \in Queries : DbRecall(query)
    \/ \E entry \in DbSessionEntries : DbStoreSession(entry)
    \/ \E limit \in Limits : DbSessionHistory(limit)
    \/ DbClearSession

SpecDb == InitDb /\ [][NextDb]_vars

\* ------------------------------------------------- calls on a ToolRegistry
\* ToolRegistry::new()
InitRegistry ==
    /\ EngineInit
    /\ text = NoText
    /\ parsed = NotParsed
    /\ llm = NoLlm
    /\ shell = NoShell
    /\ trunc = NoTrunc
    /\ auth = NoAuth
    /\ db = NoDb
    /\ tool_registry = RegState("open")
    /\ vault = NoVault

\* register(tool) is called: self.tools.write() queues for the lock
RegisterCall(tool) ==
    /\ tool_registry.pc = "open"
    /\ tool_registry.writer.op = "none"
    /\ tool_registry.writes < MaxWrites
    /\ tool_registry' = [tool_registry EXCEPT
            !.writer = [op |-> "register", name |-> tool.name, tool |-> tool]]
    /\ UNCHANGED offReg

\* unregister(name) is called: self.tools.write() queues for the lock
UnregisterCall(name) ==
    /\ tool_registry.pc = "open"
    /\ tool_registry.writer.op = "none"
    /\ tool_registry.writes < MaxWrites
    /\ tool_registry' = [tool_registry EXCEPT
            !.writer = [op |-> "unregister", name |-> name, tool |-> Tool("", "")]]
    /\ UNCHANGED offReg

\* the write guard is granted when no read guard is alive; insert or remove
RegistryWrite ==
    /\ tool_registry.pc = "open"
    /\ tool_registry.writer.op # "none"
    /\ WriteGuardGranted(tool_registry.flight)
    /\ LET w == tool_registry.writer
       IN  tool_registry' = [tool_registry EXCEPT
               !.tools = IF w.op = "register" THEN register(@, w.tool) ELSE unregister(@, w.name),
               !.names = IF w.op = "register" THEN @ \cup {w.name} ELSE @ \ {w.name},
               !.latest = IF w.op = "register"
                          THEN [n \in DOMAIN @ \cup {w.name} |-> IF n = w.name THEN w.tool ELSE @[n]]
                          ELSE @,
               !.writer = NoWriter,
               !.writes = @ + 1,
               !.last = [NoRegCall EXCEPT !.op = w.op, !.name = w.name]]
    /\ UNCHANGED offReg

\* execute(name, args): the read guard is taken (behind a queued writer it
\* waits) and the name is looked up; an unknown name returns at once, a known
\* one starts the tool's execute with the guard held
RegistryExecuteStart(name) ==
    /\ tool_registry.pc = "open"
    /\ tool_registry.writer.op = "none"
    /\ tool_registry.started < MaxCalls
    /\ tool_registry' =
          IF name \in DOMAIN tool_registry.tools
          THEN [tool_registry EXCEPT
                  !.started = @ + 1,
                  !.flight = @ \cup { [id |-> tool_registry.started + 1, name |-> name,
                                        tool |-> tool_registry.tools[name],
                                        known |-> name \in tool_registry.names] }]
          ELSE [tool_registry EXCEPT
                  !.started = @ + 1,
                  !.last = [NoRegCall EXCEPT
                              !.op = "execute", !.name = name,
                              !.known = name \in tool_registry.names,
                              !.ret = RegistryExecute(DOMAIN tool_registry.tools,
                                                      ToolCall(name, EmptyArgs),
                                                      Error(""))]]
    /\ UNCHANGED offReg

\* the tool's execute returned out; the ToolResult is built, the guard dropped
RegistryExecuteReturn(c, out) ==
    /\ tool_registry.pc = "open"
    /\ c \in tool_registry.flight
    /\ out \in ToolRunOutcomes(c.tool)
    /\ tool_registry' = [tool_registry EXCEPT
            !.flight = @ \ {c},
            !.last = [NoRegCall EXCEPT
                        !.op = "execute", !.name = c.name, !.known = c.known,
                        !.ran = c.tool,
                        !.ret = RegistryExecute(DOMAIN tool_registry.tools,
                                                ToolCall(c.name, EmptyArgs), out)]]
    /\ UNCHANGED offReg

\* descriptions(): a read guard for the length of the call
RegistryDescriptionsCall(ord) ==
    /\ tool_registry.pc = "open"
    /\ tool_registry.writer.op = "none"
    /\ ord \in IterationOrders(tool_registry.tools)
    /\ tool_registry' = [tool_registry EXCEPT
            !.last = [NoRegCall EXCEPT !.op = "descriptions",
                                       !.listed = descriptions(tool_registry.tools, ord)]]
    /\ UNCHANGED offReg

NextRegistry ==
    \/ \E tool \in RegistryTools : RegisterCall(tool)
    \/ \E name \in RegisteredNames : UnregisterCall(name)
    \/ RegistryWrite
    \/ \E name \in ExecutedNames : RegistryExecuteStart(name)
    \/ \E c \in tool_registry.flight, out \in AllToolRunOutcomes : RegistryExecuteReturn(c, out)
    \/ \E ord \in SeqsUpTo(RegisteredNames, Cardinality(RegisteredNames)) :
          RegistryDescriptionsCall(ord)

SpecRegistry == InitRegistry /\ [][NextRegistry]_vars

\* ------------------------------- AuthStorage under concurrent callers
InitVault ==
    /\ EngineInit
    /\ text = NoText
    /\ parsed = NotParsed
    /\ llm = NoLlm
    /\ shell = NoShell
    /\ trunc = NoTrunc
    /\ auth = NoAuth
    /\ db = NoDb
    /\ tool_registry = NoReg
    /\ vault \in { VaultState(f, EnvVal("sk-from-env"), 1) : f \in VaultFiles }

\* a caller enters set(provider, credential)
VaultSetCall(i, p, c) ==
    /\ vault.callers[i].pc = "idle"
    /\ vault' = [vault EXCEPT !.callers[i] = VaultCaller("set", p, c)]
    /\ UNCHANGED offVault

\* a caller enters remove(provider)
VaultRemoveCall(i, p) ==
    /\ vault.callers[i].pc = "idle"
    /\ vault' = [vault EXCEPT !.callers[i] = VaultCaller("remove", p, NoCredential)]
    /\ UNCHANGED offVault

\* a caller enters get(provider)
VaultGetCall(i, p) ==
    /\ vault.callers[i].pc = "idle"
    /\ vault' = [vault EXCEPT !.callers[i] = VaultCaller("get", p, NoCredential)]
    /\ UNCHANGED offVault

\* a caller enters get_api_key(provider, env_var)
VaultGetApiKeyCall(i, p) ==
    /\ vault.callers[i].pc = "idle"
    /\ vault' = [vault EXCEPT !.callers[i] = VaultCaller("get_api_key", p, NoCredential)]
    /\ UNCHANGED offVault

\* self.load()?: the first statement of get, set and remove, and of the
\* self.get(provider)? of get_api_key, which goes on to the match and, for an
\* expired bundle, sends the refresh request
VaultLoad(i) ==
    LET c == vault.callers[i]
        creds == load(vault.file)
        found == HashMapGet(creds, c.provider)
    IN  /\ c.pc = "load"
        /\ IF c.op = "get"
           THEN vault' = [vault EXCEPT !.callers[i] =
                              [c EXCEPT !.pc = "done", !.creds = creds, !.found = found,
                                        !.got = found, !.at = vault.now, !.ret = UnitOk]]
           ELSE IF c.op = "get_api_key"
           THEN LET next == resolved(c, found, vault.env, vault.now)
                IN  vault' = [vault EXCEPT
                                  !.callers[i] = next,
                                  !.requests = IF next.pc = "refresh"
                                               THEN Append(@, next.sent) ELSE @]
           ELSE vault' = [vault EXCEPT !.callers[i] =
                              [c EXCEPT !.pc = "save", !.creds = creds]]
        /\ UNCHANGED offVault

\* refresh_token(..).await returned Ok: oauth = refreshed.clone(), and
\* self.set(provider, ..) starts with its own self.load()?
VaultRefreshOk(i, data) ==
    LET c == vault.callers[i]
        refreshed == refreshed_bundle(vault.now, data)
    IN  /\ c.pc = "refresh"
        /\ vault' = [vault EXCEPT
                         !.callers[i] = [c EXCEPT !.pc = "save", !.credential = refreshed,
                                                  !.creds = load(vault.file)],
                         !.issued = Append(@, refreshed)]
        /\ UNCHANGED offVault

\* refresh_token(..).await? failed: the error is returned
VaultRefreshErr(i) ==
    LET c == vault.callers[i]
    IN  /\ c.pc = "refresh"
        /\ vault' = [vault EXCEPT
                         !.callers[i] = [c EXCEPT !.pc = "done", !.at = vault.now,
                                                  !.ret = ErrOnRefreshErr(c.found)]]
        /\ UNCHANGED offVault

\* self.save(&creds): the local map replaces the file; set and remove return
\* Ok(()), get_api_key returns Ok(Some(oauth.access))
VaultSave(i) ==
    LET c == vault.callers[i]
    IN  /\ c.pc = "save"
        /\ vault' = [vault EXCEPT
                         !.file = save(updated(c)),
                         !.callers[i] =
                             IF c.op = "get_api_key"
                             THEN [c EXCEPT !.pc = "done", !.got = c.credential,
                                            !.at = vault.now,
                                            !.ret = KeySome(c.credential.access)]
                             ELSE [c EXCEPT !.pc = "done", !.ret = UnitOk]]
        /\ UNCHANGED offVault

\* the wall clock advances
VaultTick ==
    /\ vault.now < MaxNow
    /\ vault' = [vault EXCEPT !.now = @ + 1]
    /\ UNCHANGED offVault

NextVault ==
    \/ \E i \in Callers, p \in Providers, c \in VaultCredentials : VaultSetCall(i, p, c)
    \/ \E i \in Callers, p \in Providers : VaultRemoveCall(i, p)
    \/ \E i \in Callers, p \in Providers : VaultGetCall(i, p)
    \/ \E i \in Callers, p \in Providers : VaultGetApiKeyCall(i, p)
    \/ \E i \in Callers : VaultLoad(i)
    \/ \E i \in Callers, data \in TokenResponses : VaultRefreshOk(i, data)
    \/ \E i \in Callers : VaultRefreshErr(i)
    \/ \E i \in Callers : VaultSave(i)
    \/ VaultTick

SpecVault == InitVault /\ [][NextVault]_vars

\* ------------------------------------------------ properties of the engine
\* the run is between its first store and the next call of run: memory and
\* produced describe the same run
RunStored == runs > 0 /\ pc \notin {"clear", "task"}

\* a result call k of a step can have: timed out, or what execute returned
PossibleResults(call) ==
    { ToolResult(call.tool, Error("timed out")) }
        \cup { RegistryExecute(registry, call, out) : out \in ToolOutcomes(call) }

ToolsOf(seq) == [k \in 1..Len(seq) |-> seq[k].tool]

\* C1: after a run that returned Ok the per-task history is exactly
\* [Task{task}, one Iteration per Act step the thinker produced in this run, in
\* order, Answer]: nothing of an earlier run is left, Task is first and Answer
\* is last, each once.
C1_HistoryIsTaskIterationsAnswer ==
    (pc = "idle" /\ result.tag = "ok") =>
        LET k == Len(produced) - 1 IN
        /\ k >= 0
        /\ Len(memory) = k + 2
        /\ memory[1] = TaskEntry(task)
        /\ \A i \in 1..k :
              /\ produced[i].kind = "Act"
              /\ memory[i + 1].kind = "Iteration"
              /\ memory[i + 1].thought = produced[i].thought
              /\ ToolsOf(memory[i + 1].results) = ToolsOf(produced[i].calls)
        /\ produced[k + 1].kind = "Finish"
        /\ memory[k + 2] = AnswerEntry(produced[k + 1].thought, result.text)
        /\ Cardinality({ i \in 1..Len(memory) : memory[i].kind = "Task" }) = 1
        /\ Cardinality({ i \in 1..Len(memory) : memory[i].kind = "Answer" }) = 1

\* a second run returned Ok after one Act step; the first run had left entries
C1_Witness ==
    /\ pc = "idle"
    /\ result.tag = "ok"
    /\ runs = 2
    /\ Len(produced) = 2
    /\ memory[1] = TaskEntry("task two")

\* C2: every run that ends with Finish writes one SessionEntry{task, answer}:
\* after N successful runs session_history has N entries, the last one holding
\* the last successful run's task and answer.
C2_SessionEntryPerFinish ==
    pc = "idle" =>
        /\ Len(session) = finished
        /\ result.tag = "ok" => session[Len(session)] = SessionEntry(task, result.text)

\* C3: a run in which the thinker returned Act on every call ends with the
\* max-iterations error, and a run that ends with that error called the thinker
\* exactly max_iterations times, stored exactly max_iterations Iterations, no
\* Answer, and wrote no session entry.
C3_MaxIterationsExact ==
    /\ (/\ pc = "idle"
        /\ runs > 0
        /\ result.tag \in {"ok", "err"}
        /\ Len(produced) = replies
        /\ \A i \in 1..Len(produced) : produced[i].kind = "Act")
       => result = [tag |-> "err", text |-> MaxIterMsg]
    /\ (pc = "idle" /\ result = [tag |-> "err", text |-> MaxIterMsg]) =>
        /\ replies = MaxIterations
        /\ Len(produced) = MaxIterations
        /\ \A i \in 1..Len(produced) : produced[i].kind = "Act"
        /\ Cardinality({ i \in 1..Len(memory) : memory[i].kind = "Iteration" }) = MaxIterations
        /\ \A i \in 1..Len(memory) : memory[i].kind # "Answer"
        /\ session = sessionAtRun

C3_Witness ==
    /\ pc = "idle"
    /\ result = [tag |-> "err", text |-> MaxIterMsg]
    /\ Len(memory) = MaxIterations + 1

\* C4: every stored Iteration has one result per call of its Act step, and
\* result k is a result of call k (its tool is call k's tool, its outcome is one
\* that call can have), whatever order the executions finished or timed out in.
C4_ResultsInCallOrder ==
    RunStored =>
        \A j \in 2..Len(memory) :
            memory[j].kind = "Iteration" =>
                /\ j - 1 <= Len(produced)
                /\ produced[j - 1].kind = "Act"
                /\ Len(memory[j].results) = Len(produced[j - 1].calls)
                /\ \A k \in 1..Len(memory[j].results) :
                      /\ memory[j].results[k].tool = produced[j - 1].calls[k].tool
                      /\ memory[j].results[k] \in PossibleResults(produced[j - 1].calls[k])

\* an Iteration of two calls was stored whose second call finished first
C4_Witness ==
    /\ pc = "loop"
    /\ iteration >= 1
    /\ Len(order) = 2
    /\ order[1].i = 2
    /\ order[2].i = 1
    /\ Len(memory[Len(memory)].results) = 2

\* C5: the Iteration stored for a step holds Error("timed out") under the
\* call's tool exactly for the calls whose timeout elapsed; the other calls hold
\* what their execution returned; the Iteration is stored and the run goes on
\* to the next iteration without failing.
C5_TimeoutIsPerCall ==
    (pc \in {"loop", "lease", "next_step"} /\ iteration >= 1) =>
        LET e == memory[Len(memory)]
            calls == produced[iteration].calls
            timedOut == { order[n].i : n \in { m \in 1..Len(order) : order[m].timeout } }
        IN  /\ result = NoRun
            /\ e.kind = "Iteration"
            /\ Len(e.results) = Len(calls)
            /\ \A k \in 1..Len(calls) :
                  IF k \in timedOut
                  THEN e.results[k] = ToolResult(calls[k].tool, Error("timed out"))
                  ELSE e.results[k] \in
                           { RegistryExecute(registry, calls[k], out) : out \in ToolOutcomes(calls[k]) }

\* of two calls the second timed out, the first returned; the thinker is
\* being asked for the next step
C5_Witness ==
    /\ pc = "next_step"
    /\ iteration >= 1
    /\ Len(order) = 2
    /\ \E n \in 1..2 : order[n].i = 2 /\ order[n].timeout
    /\ \E n \in 1..2 : order[n].i = 1 /\ ~order[n].timeout
    /\ memory[Len(memory)].results[2].outcome = Error("timed out")

\* C6: a call to an unregistered tool is stored as Error("unknown tool: <name>"),
\* a failing tool as Error(<msg>); the next next_step gets the history with
\* that Iteration; and run fails only with the thinker's error or with the
\* iteration cap.
C6_ToolFailuresAreObservations ==
    /\ RunStored =>
          \A j \in 1..Len(memory) : \A k \in 1..Len(memory[j].results) :
              memory[j].results[k].tool \notin registry =>
                  memory[j].results[k].outcome =
                      Error("unknown tool: " \o memory[j].results[k].tool)
    /\ pc = "next_step" =>
          /\ context.history = memory
          /\ Len(memory) = iteration + 1
          /\ iteration >= 1 =>
                /\ memory[iteration + 1].kind = "Iteration"
                /\ memory[iteration + 1].thought = produced[iteration].thought
                /\ Len(memory[iteration + 1].results) = Len(produced[iteration].calls)
    /\ (pc = "idle" /\ result.tag = "err") =>
          \/ result.text = MaxIterMsg /\ iteration = MaxIterations
          \/ result.text = ThinkerErrMsg /\ replies = Len(produced) + 1
    /\ (pc = "idle" /\ result.tag = "ok") =>
          /\ Len(produced) = replies
          /\ produced[Len(produced)] = Finish(produced[Len(produced)].thought, result.text)

\* run returned Ok after an Iteration holding an unknown-tool error and the
\* error of a failed tool
C6_Witness ==
    /\ pc = "idle"
    /\ result.tag = "ok"
    /\ Len(memory) = 3
    /\ Len(memory[2].results) = 2
    /\ memory[2].results[1] = ToolResult("nonexistent", Error("unknown tool: nonexistent"))
    /\ memory[2].results[2] = ToolResult("shell", Error("exit code 1"))

\* C7: while a next_step call is in progress the thinker slot is not written:
\* the slot still holds the thinker the call started against (the one the
\* last completed set_thinker installed), and exactly one read guard is alive.
C7_NoSwapDuringNextStep ==
    /\ pc = "next_step" => (guard = thinker /\ readers = 1)
    /\ pc # "next_step" => (guard = 0 /\ readers = 0)

\* a next_step runs against the thinker an earlier set_thinker installed while
\* another set_thinker waits for the write lease
C7_Witness ==
    /\ pc = "next_step"
    /\ thinker = 2
    /\ guard = 2
    /\ swap = [pc |-> "waiting", new |-> 1]

\* C8: session_usage is zero at construction and always equals the sum of the
\* usage of every StepResult the thinker returned since, whatever became of
\* the runs.
C8_SessionUsageIsSum ==
    /\ session_usage.input_tokens = usageCount * StepUsage.input_tokens
    /\ session_usage.output_tokens = usageCount * StepUsage.output_tokens
    /\ runs = 0 => session_usage = ZeroUsage

\* a second run failed at the cap; steps of both runs are counted
C8_Witness ==
    /\ pc = "idle"
    /\ runs = 2
    /\ result = [tag |-> "err", text |-> MaxIterMsg]
    /\ usageCount = MaxIterations + 1
    /\ session_usage.input_tokens = (MaxIterations + 1) * StepUsage.input_tokens

\* ---------------------------------------------- properties of parse_response
\* C9: parse_response never returns Act with an empty calls list: a response
\* without answer whose action.calls is an empty array, or an array in which no
\* item has a string tool, is a parse error.
C9_ActHasCalls ==
    parsed.tag # "none" =>
        /\ (parsed.tag = "ok" /\ parsed.step.kind = "Act") => Len(parsed.step.calls) >= 1
        /\ (/\ FromStrOk(ExtractJson(text))
            /\ text.body.kind = "object"
            /\ text.body.answer = JAbsent
            /\ text.body.action.t = "obj"
            /\ text.body.action.calls.t = "arr"
            /\ \A i \in 1..Len(text.body.action.calls.items) :
                  text.body.action.calls.items[i].tool.t # "str")
           => (parsed.tag = "err"
               /\ parsed.msg = "LLM returned action with no valid tool calls")

\* a calls array of items none of which names a tool was rejected
C9_Witness ==
    /\ parsed.tag = "err"
    /\ parsed.msg = "LLM returned action with no valid tool calls"
    /\ Len(text.body.action.calls.items) = MaxItems
    /\ text.pre = "prose"

\* C18: a response object with an "answer" field parses to Finish whatever its
\* "action" field holds: absent, not an object, or an object with any "calls";
\* no tool call comes out of it.
C18_AnswerBeatsAction ==
    (/\ parsed.tag # "none"
     /\ FromStrOk(ExtractJson(text))
     /\ text.body.kind = "object"
     /\ text.body.answer # JAbsent)
    => /\ parsed.tag = "ok"
       /\ parsed.step.kind = "Finish"
       /\ parsed.step.calls = <<>>

\* a response with a string answer and an action with MaxItems valid calls was
\* parsed to Finish
C18_Witness ==
    /\ parsed.tag = "ok"
    /\ parsed.step = Finish("hmm", "42")
    /\ text.body.action.t = "obj"
    /\ text.body.action.calls.t = "arr"
    /\ Len(FilterMapCalls(text.body.action.calls.items)) = MaxItems

\* C19: an "answer" that is present and is a JSON value other than a string
\* (here a number) gives Finish whose answer is the serialization of that
\* value, not the empty string.
C19_NonStringAnswerStringified ==
    (/\ parsed.tag = "ok"
     /\ parsed.step.kind = "Finish"
     /\ text.body.kind = "object"
     /\ text.body.answer.t = "num")
    => /\ parsed.step.answer = text.body.answer.s
       /\ parsed.step.answer # ""

\* C20: a response text made of one JSON object that is an answer or a valid
\* action, with prose before it, after it, or on both sides, is accepted: it
\* parses as the object alone does.
C20_ProseAroundJsonAccepted ==
    (/\ parsed.tag # "none"
     /\ text.body.kind = "object"
     /\ text.pre \in {"", "prose"}
     /\ text.post \in {"", "prose"}
     /\ ParseResponse(Text("", text.body, "")).tag = "ok")
    => parsed = ParseResponse(Text("", text.body, ""))

\* ------------------------------------------------- properties of ShellTool
\* the execute call was given a command
ShellCalled == shell.pc \notin {"none", "idle"} /\ "command" \in DOMAIN shell.args
\* the commands drawn that hold a blocklist entry when case is disregarded,
\* those is_blocked rejects and those is_write_command classifies as write
HoldBlocklistEntry ==
    { c \in Commands : \E k \in DOMAIN BLOCKED_COMMANDS :
                         contains(to_lowercase(c), to_lowercase(BLOCKED_COMMANDS[k])) }
BlockedCommands == { c \in Commands : is_blocked(c) }
WriteCommands == { c \in Commands : is_write_command(c) }

\* C11: a command that holds an entry of the blocklist, compared without
\* regard to case, is rejected with an error in ReadOnly and in ReadWrite mode,
\* and no process is spawned for it; this for each entry of the list.
C11_BlocklistRejectsInBothModes ==
    (/\ ShellCalled
     /\ shell.args.command \in HoldBlocklistEntry)
    => /\ shell.pc = "done"
       /\ shell.out.tag = "Err"
       /\ shell.spawned = 0

\* C12 as claimed: in ReadOnly mode a command is_write_command classifies as
\* write is rejected with an error that mentions "read-only" and no process is
\* spawned; in ReadWrite mode it is not rejected by the write check.
C12_ReadOnlyErrorMentionsReadOnly ==
    (ShellCalled /\ shell.args.command \in WriteCommands)
    => /\ shell.mode = "ReadOnly" =>
            /\ shell.pc = "done"
            /\ shell.out.tag = "Err"
            /\ contains(shell.out.msg, "read-only")
            /\ shell.spawned = 0
       /\ shell.mode = "ReadWrite" => shell.out.msg # ReadOnlyMsg

\* C12 as amended: in ReadOnly mode a command is_write_command classifies as
\* write is rejected with an error and no process is spawned; the error is the
\* deny-list error when is_blocked holds of the command and mentions
\* "read-only" otherwise; in ReadWrite mode the command is not rejected by the
\* write check.
C12_ReadOnlyRejectsWrites ==
    (ShellCalled /\ shell.args.command \in WriteCommands)
    => /\ shell.mode = "ReadOnly" =>
            /\ shell.pc = "done"
            /\ shell.out.tag = "Err"
            /\ shell.spawned = 0
            /\ IF shell.args.command \in BlockedCommands
               THEN shell.out.msg = DenyListMsg
               ELSE shell.out.msg = ReadOnlyMsg /\ contains(shell.out.msg, "read-only")
       /\ shell.mode = "ReadWrite" => shell.out.msg # ReadOnlyMsg

\* a write command that is not on the deny list was rejected in ReadOnly mode
C12_Witness ==
    /\ ShellCalled
    /\ shell.args.command = "cat a | tee b"
    /\ shell.args.command \in WriteCommands \ BlockedCommands
    /\ shell.mode = "ReadOnly"
    /\ shell.pc = "done"
    /\ shell.out = ShellErr(ReadOnlyMsg)
    /\ shell.spawned = 0

\* C13: truncate_output never fails; it returns the output unchanged when it
\* has at most max_bytes bytes, and otherwise a prefix of whole code points of
\* at most max_bytes bytes followed by the marker.
C13_TruncateNeverSplits ==
    trunc.ret.tag # "none" =>
        /\ trunc.ret.tag = "ok"
        /\ ByteLen(trunc.output) <= trunc.max_bytes =>
              trunc.ret = Returned(trunc.output, FALSE, 0, 0)
        /\ ByteLen(trunc.output) > trunc.max_bytes =>
              /\ trunc.ret.marker
              /\ Len(trunc.ret.text) <= Len(trunc.output)
              /\ trunc.ret.text = SubSeq(trunc.output, 1, Len(trunc.ret.text))
              /\ ByteLen(trunc.ret.text) <= trunc.max_bytes

\* C14: the environment of a spawned child holds only variables of the
\* allow-list, and holds a variable of the list, with its value, exactly when
\* the variable is set in the environment of the agent.
C14_ChildEnvIsAllowListed ==
    shell.spawned > 0 =>
        /\ DOMAIN shell.child_env \subseteq SafeEnvVarSet
        /\ \A n \in SafeEnvVarSet :
              /\ n \in DOMAIN shell.child_env <=> shell.env[n].set
              /\ n \in DOMAIN shell.child_env => shell.child_env[n] = shell.env[n].val

\* C23: execute checks in the order missing command argument, blocklist,
\* ReadOnly write check, confirmation, execution. With require_confirmation a
\* process is spawned only after the user answered "y" in either case, any
\* other answer gives "cancelled by user" and no process, and the user is not
\* prompted for a command the blocklist or the ReadOnly check rejects.
C23_ChecksInOrder ==
    shell.pc \notin {"none", "idle"} =>
        LET has == "command" \in DOMAIN shell.args
            blocked == has /\ shell.args.command \in BlockedCommands
            write == has /\ shell.mode = "ReadOnly" /\ shell.args.command \in WriteCommands
            rejected == shell.pc = "done" /\ shell.prompted = 0 /\ shell.spawned = 0
        IN  /\ ~has => rejected /\ shell.out = ShellErr(MissingCommandMsg)
            /\ blocked => rejected /\ shell.out = ShellErr(DenyListMsg)
            /\ (write /\ ~blocked) => rejected /\ shell.out = ShellErr(ReadOnlyMsg)
            /\ (has /\ ~blocked /\ ~write) =>
                  /\ shell.prompted = (IF shell.require_confirmation THEN 1 ELSE 0)
                  /\ shell.out.msg \notin {MissingCommandMsg, DenyListMsg, ReadOnlyMsg}
                  /\ shell.pc = "confirm" => (shell.require_confirmation /\ ~shell.answered)
                  /\ shell.spawned > 0 => shell.pc \in {"running", "done"}
                  /\ (shell.spawned > 0 /\ shell.require_confirmation) =>
                        (shell.answered /\ shell.answer \in {"y", "Y", " Y ", " y "})
                  /\ (shell.answered /\ shell.answer \notin {"y", "Y", " Y ", " y "}) =>
                        /\ shell.pc = "done"
                        /\ shell.out = ShellErr(CancelledMsg)
                        /\ shell.spawned = 0
                  /\ shell.pc \in {"running", "done"} /\ shell.out.tag \in {"none", "Ok", "Panic"}
                        => shell.spawned = 1

\* a command was spawned after the prompt was answered with an upper-case Y
C23_Witness ==
    /\ shell.require_confirmation
    /\ shell.prompted = 1
    /\ shell.answer = " Y "
    /\ shell.spawned = 1
    /\ shell.out.tag = "Ok"
    /\ shell.args.command = "echo hello"

\* the commands drawn with a segment headed by curl -X POST, PUT or DELETE
CurlWriteCommands ==
    { "curl -X POST http://h", "curl -s -X PUT http://h -d x", "ls && curl -X DELETE http://h" }

\* C27: a command with a segment whose head is curl -X POST, curl -X PUT or
\* curl -X DELETE is classified as write and is rejected in ReadOnly mode.
C27_CurlWritesAreWrite ==
    (ShellCalled /\ shell.args.command \in CurlWriteCommands) =>
        /\ shell.args.command \in WriteCommands
        /\ shell.mode = "ReadOnly" =>
              /\ shell.pc = "done"
              /\ shell.out = ShellErr(ReadOnlyMsg)
              /\ shell.spawned = 0

\* a segment holds output redirection, or its head, a leading sudo ignored,
\* is an entry of the write list
HeadIsWrite(segment) ==
    LET seg == to_lowercase(trim(segment))
    IN  \/ contains(seg, "> ")
        \/ contains(seg, ">>")
        \/ \E k \in DOMAIN WRITE_PATTERNS :
              \/ starts_with(seg, to_lowercase(WRITE_PATTERNS[k]))
              \/ starts_with(seg, "sudo " \o to_lowercase(WRITE_PATTERNS[k]))
HeadWriteCommands ==
    { c \in Commands :
        LET segments == split(trim(c), {";", "&", "|"})
        IN  \E i \in DOMAIN segments : HeadIsWrite(segments[i]) }

\* C28: a command is classified as write only when a segment of it holds
\* output redirection or is headed, a leading sudo ignored, by an entry of the
\* write list; a command that holds a write keyword only as an argument or
\* inside another word is not rejected by the write check in ReadOnly mode.
C28_WriteOnlyByHead ==
    ShellCalled =>
        /\ shell.args.command \in WriteCommands => shell.args.command \in HeadWriteCommands
        /\ shell.args.command \notin HeadWriteCommands => shell.out # ShellErr(ReadOnlyMsg)

\* ---------------------------------------------- properties of AuthStorage
\* the credentials get returns for the providers other than p are the same
\* before and after the last call
OthersUnchanged(p) == \A q \in Providers \ {p} : get(auth.file, q) = get(auth.prev, q)
\* the last call was get_api_key and it has returned
KeyReturned == auth.last.op = "get_api_key" /\ auth.last.ret.tag # "none"

\* C15: after set(p, c) a get(p) returns c, every field equal, whether or not
\* p had a credential before; after remove(p) a get(p) returns None; remove of
\* an absent provider succeeds; set and remove on p leave what get returns for
\* every other provider as it was.
C15_VaultRoundTrip ==
    /\ auth.last.op = "set" =>
          /\ auth.last.ret = UnitOk
          /\ get(auth.file, auth.last.provider) = auth.last.credential
          /\ OthersUnchanged(auth.last.provider)
    /\ auth.last.op = "remove" =>
          /\ auth.last.ret = UnitOk
          /\ get(auth.file, auth.last.provider) = NoCredential
          /\ OthersUnchanged(auth.last.provider)
    /\ auth.last.op = "get" =>
          /\ auth.last.got = get(auth.file, auth.last.provider)
          /\ auth.file = auth.prev

\* a set replaced another credential of the provider while the other provider
\* held an OAuth credential
C15_Witness ==
    /\ auth.last.op = "set"
    /\ auth.last.credential = ApiKey("sk-b")
    /\ get(auth.prev, auth.last.provider).variant = "OAuth"
    /\ get(auth.file, auth.last.provider) = ApiKey("sk-b")
    /\ \E q \in Providers \ {auth.last.provider} : get(auth.file, q).variant = "OAuth"

C17_RefreshIffExpired ==
    (auth.last.op = "get_api_key" /\ auth.last.found.variant = "OAuth") =>
        /\ auth.last.refreshes = 1 <=> auth.last.at >= auth.last.found.expires
        /\ auth.last.refreshes \in {0, 1}
        /\ (auth.last.refreshes = 1 /\ auth.last.ret.tag = "Some") =>
              /\ auth.last.saves = 1
              /\ auth.last.got.access \in { d.access_token : d \in TokenResponses }
              /\ auth.last.ret = KeySome(auth.last.got.access)
              /\ get(auth.file, auth.last.provider) = auth.last.got
        /\ auth.last.refreshes = 0 =>
              /\ auth.last.ret = KeySome(auth.last.found.access)
              /\ auth.last.saves = 0
              /\ auth.file = auth.prev

\* a bundle was refreshed at the instant it expired
C17_Witness ==
    /\ KeyReturned
    /\ auth.last.found = OAuth("access-0", "refresh-0", 2)
    /\ auth.last.at = 2
    /\ auth.last.refreshes = 1
    /\ auth.last.ret = KeySome("access-2")
    /\ get(auth.file, auth.last.provider) = OAuth("access-2", "refresh-2", auth.last.got.expires)
    /\ get(auth.prev, auth.last.provider) = auth.last.found

\* C36: when the refresh call made by get_api_key fails, get_api_key returns
\* an error, not the stale access token and not the environment variable, and
\* the stored credential is left as it was before the call.
C36_RefreshFailureIsAnError ==
    (auth.last.op = "get_api_key" /\ auth.last.refreshed = "err") =>
        /\ auth.pc = "idle"
        /\ auth.last.ret.tag = "Err"
        /\ auth.last.ret # KeySome(auth.last.found.access)
        /\ auth.last.ret # KeySome(auth.env.val)
        /\ auth.last.saves = 0
        /\ auth.file = auth.prev
        /\ get(auth.file, auth.last.provider) = auth.last.found

\* the refresh of an expired bundle failed while the environment variable
\* held a key
C36_Witness ==
    /\ auth.last.op = "get_api_key"
    /\ auth.last.refreshed = "err"
    /\ auth.env = EnvVal("sk-from-env")
    /\ auth.last.found = OAuth("access-0", "refresh-0", 2)
    /\ auth.last.ret = KeyErr(RefreshFailedMsg)

\* the item of action.calls has a string in its tool field
ToolIsString(c) == c.tool.t = "str"

\* C29: of the items of action.calls parse_response keeps those whose tool is
\* a string, in their order, with an empty argument map when args is missing
\* or is not an object; it drops only the others.
C29_StringToolItemsKept ==
    (/\ parsed.tag # "none"
     /\ FromStrOk(ExtractJson(text))
     /\ text.body.kind = "object"
     /\ text.body.answer = JAbsent
     /\ text.body.action.t = "obj"
     /\ text.body.action.calls.t = "arr")
    => LET kept == SelectSeq(text.body.action.calls.items, ToolIsString)
       IN  IF kept = <<>> THEN parsed.tag = "err"
           ELSE /\ parsed.tag = "ok"
                /\ parsed.step.kind = "Act"
                /\ parsed.step.calls =
                      [i \in 1..Len(kept) |->
                          ToolCall(kept[i].tool.s,
                                   IF kept[i].args.t = "obj"
                                   THEN [k \in DOMAIN kept[i].args.map |-> kept[i].args.map[k].s]
                                   ELSE EmptyArgs)]

\* C24: when a run is cancelled at a suspension point the per-task memory is
\* left as [Task, Iteration*]: every stored Iteration holds one result for each
\* call of its step, there is no Answer, no session entry was written, and the
\* next run starts by clearing this memory.
C24_CancelLeavesTaskAndIterations ==
    /\ (pc = "idle" /\ result.tag = "cancelled") =>
          /\ Len(memory) = iteration + 1
          /\ memory[1] = TaskEntry(task)
          /\ \A j \in 2..Len(memory) :
                /\ memory[j].kind = "Iteration"
                /\ produced[j - 1].kind = "Act"
                /\ memory[j].thought = produced[j - 1].thought
                /\ ToolsOf(memory[j].results) = ToolsOf(produced[j - 1].calls)
                /\ \A k \in 1..Len(memory[j].results) :
                      memory[j].results[k].outcome.tag \in {"Success", "Error"}
          /\ session = sessionAtRun
    /\ pc = "task" => memory = <<>>

\* a run of two calls was cancelled in join_all when one call had returned,
\* after an earlier iteration had been stored
C24_Witness ==
    /\ pc = "idle"
    /\ result.tag = "cancelled"
    /\ Len(memory) = 2
    /\ memory[2].kind = "Iteration"
    /\ Len(produced) = 2
    /\ Len(produced[2].calls) = 2

\* C30: the read lease on the thinker is held only while next_step is being
\* called: none is held while tools execute, while memory is read or written, or
\* between iterations, so a set_thinker that waits for the lease can take it
\* whenever no next_step is in progress.
C30_LeaseOnlyDuringNextStep ==
    /\ readers > 0 => pc = "next_step"
    /\ (swap.pc = "waiting" /\ pc # "next_step") => ENABLED SetThinkerWrite

\* a set_thinker waits while a tool call of the step is still executing
C30_Witness ==
    /\ pc = "tools"
    /\ swap.pc = "waiting"
    /\ \E i \in 1..Len(slots) : slots[i].state = "pending"
    /\ readers = 0

\* ---------------------------------------------- properties of SqliteMemory
Min(a, b) == IF a < b THEN a ELSE b

\* C21: session_history(limit) returns the min(limit, total) most recently
\* stored session entries, oldest first, and none that was stored before the
\* last clear_session.
C21_SessionHistoryNewestOldestFirst ==
    db.last.op = "session_history" =>
        LET live == SubSeq(db.log, db.cut + 1, Len(db.log))
            n == Min(db.last.limit, Len(live))
        IN  db.last.sessions = SubSeq(live, Len(live) - n + 1, Len(live))

\* two entries were stored after a clear_session that removed one, and the
\* last one was asked for
C21_Witness ==
    /\ db.last.op = "session_history"
    /\ db.last.limit = 1
    /\ db.cut = 1
    /\ Len(db.log) = 3
    /\ db.last.sessions = << db.log[3] >>
    /\ db.log[2] # db.log[3]

\* C22: the per-task log and the session log are independent: clear empties
\* the per-task log and leaves the session log as it was, clear_session empties
\* the session log and leaves the per-task log as it was, store never changes
\* the session log and store_session never changes the per-task log.
C22_LogsIndependent ==
    LET all == Pow2(UsizeBits) - 1
        before == db.prev
        after == db.data
    IN  /\ db.last.op = "clear" =>
              /\ history(after) = <<>>
              /\ session_history(after, all) = session_history(before, all)
              /\ after.tables.session_history = before.tables.session_history
        /\ db.last.op = "clear_session" =>
              /\ session_history(after, all) = <<>>
              /\ history(after) = history(before)
              /\ after.tables.memory = before.tables.memory
        /\ db.last.op = "store" =>
              /\ Len(history(after)) = Len(history(before)) + 1
              /\ after.tables.session_history = before.tables.session_history
        /\ db.last.op = "store_session" =>
              /\ Len(session_history(after, all)) = Len(session_history(before, all)) + 1
              /\ after.tables.memory = before.tables.memory

\* clear has emptied a per-task log of two entries while two session entries
\* stay
C22_Witness ==
    /\ db.last.op = "clear"
    /\ Cardinality(db.prev.tables.memory) = 2
    /\ db.data.tables.memory = {}
    /\ Cardinality(db.data.tables.session_history) = 2

\* ---------------------------------------------- properties of ToolRegistry
\* C25: after any register and unregister calls the registry holds one tool
\* per registered name, the one registered last under it; descriptions lists
\* exactly the registered tools; execute(name) returns
\* Error("unknown tool: <name>") if and only if name is not registered, and
\* the tool field of its result is always name.
C25_RegistryMatchesRegistrations ==
    LET r == tool_registry
    IN  /\ DOMAIN r.tools = r.names
        /\ \A n \in r.names : r.tools[n] = r.latest[n] /\ r.tools[n].name = n
        /\ r.last.op = "descriptions" =>
              /\ Len(r.last.listed) = Cardinality(r.names)
              /\ { r.last.listed[i] : i \in 1..Len(r.last.listed) } =
                    { ToolDescription(n, r.latest[n].description) : n \in r.names }
        /\ r.last.op = "execute" =>
              /\ r.last.ret.tool = r.last.name
              /\ r.last.ret.outcome = Error("unknown tool: " \o r.last.name) <=> ~r.last.known

\* shell was registered and unregistered, and an execute of it then returned
\* the unknown-tool error
C25_Witness ==
    /\ tool_registry.last.op = "execute"
    /\ tool_registry.last.name = "shell"
    /\ "shell" \in DOMAIN tool_registry.latest
    /\ "shell" \notin tool_registry.names
    /\ tool_registry.last.ret = ToolResult("shell", Error("unknown tool: shell"))

\* C31: when next_step returns an error at iteration k, run returns that
\* error at once: no tool of that iteration is executed, the per-task history
\* stays [Task, Iteration_1..Iteration_k], no Answer is stored and no session
\* entry is written.
C31_ThinkerErrorEndsRun ==
    (pc = "idle" /\ result = [tag |-> "err", text |-> ThinkerErrMsg]) =>
        /\ replies = iteration + 1
        /\ Len(produced) = iteration
        /\ slots = <<>>
        /\ Len(memory) = iteration + 1
        /\ memory[1] = TaskEntry(task)
        /\ \A j \in 2..Len(memory) :
              /\ memory[j].kind = "Iteration"
              /\ memory[j].thought = produced[j - 1].thought
              /\ Len(memory[j].results) = Len(produced[j - 1].calls)
        /\ session = sessionAtRun

\* the second next_step of a run failed after one Iteration had been stored
C31_Witness ==
    /\ pc = "idle"
    /\ result = [tag |-> "err", text |-> ThinkerErrMsg]
    /\ iteration = 1
    /\ Len(memory) = 2
    /\ memory[2].kind = "Iteration"

\* C38: a register or unregister issued while an execute is in flight does
\* not abort or alter that execution: the call returns the result of the tool it
\* looked up, the map changes only when no execute is in flight, and an
\* execute in flight runs the tool registered last under its name.
C38_WritesWaitForExecutes ==
    /\ [](\A c \in tool_registry.flight :
            /\ c.name \in DOMAIN tool_registry.tools
            /\ tool_registry.tools[c.name] = c.tool
            /\ c.name \in tool_registry.names
            /\ tool_registry.latest[c.name] = c.tool)
    /\ []((tool_registry.last.op = "execute" /\ tool_registry.last.known) =>
            /\ tool_registry.last.ran.name = tool_registry.last.name
            /\ tool_registry.last.ret.tool = tool_registry.last.name
            /\ tool_registry.last.ret.outcome \in ToolRunOutcomes(tool_registry.last.ran))
    /\ [][tool_registry.tools' # tool_registry.tools => tool_registry.flight = {}]_vars

\* an execute of shell returned the result of the tool it had looked up while
\* a register that replaces shell was waiting for the lock
C38_Witness ==
    /\ tool_registry.last.op = "execute"
    /\ tool_registry.last.name = "shell"
    /\ tool_registry.last.ret = ToolResult("shell", Success("v1"))
    /\ tool_registry.writer.op = "register"
    /\ tool_registry.writer.tool = Tool("shell", "v2")
    /\ tool_registry.flight = {}

\* the entries drawn whose serialized JSON holds the query as it is written
substring_hits ==
    [q \in Queries |-> { e \in DbEntries : contains(json_text(entry_to_json(e)), q) }]

\* C39: recall(q) returns exactly the per-task entries whose serialized JSON
\* holds q as a literal, case-sensitive substring, in insertion order; % and _
\* in q match only themselves.
C39_RecallIsLiteralSubstring ==
    db.last.op = "recall" =>
        LET stored == history(db.data)
            hit(e) == e \in substring_hits[db.last.query]
        IN  db.last.entries = SelectSeq(stored, hit)

\* ------------------------------- properties of AnthropicThinker::next_step
\* C10: one next_step calls the model API at most MAX_PARSE_RETRIES + 1 = 2
\* times; a second call is made only after the first response failed to parse
\* and is sent the first list plus the malformed assistant turn and the
\* correction user turn; when the second response fails to parse too, next_step
\* returns that parse error.
C10_AtMostTwoCalls ==
    /\ llm.calls <= MAX_PARSE_RETRIES + 1
    /\ llm.calls <= 2
    /\ Len(llm.sent) = llm.calls
    /\ Len(llm.sent) >= 2 =>
          /\ Len(llm.raws) >= 1
          /\ ParseResponse(llm.raws[1]).tag = "err"
          /\ llm.sent[2] =
                llm.sent[1] \o << Message("assistant", "raw", "", <<>>, llm.raws[1]),
                                  Message("user", "correction", PARSE_RETRY_PROMPT,
                                          <<>>, NoText) >>
    /\ (llm.pc = "done" /\ Len(llm.raws) = 2 /\ ParseResponse(llm.raws[2]).tag = "err") =>
          llm.out = LlmErr(ParseResponse(llm.raws[2]).msg)
    /\ (llm.pc = "done" /\ Len(llm.raws) = 1 /\ ParseResponse(llm.raws[1]).tag = "err") =>
          (llm.calls = 2 /\ llm.out = LlmErr("Anthropic API error"))

\* both responses failed to parse and next_step returned the second parse error
C10_Witness ==
    /\ llm.pc = "done"
    /\ llm.calls = 2
    /\ Len(llm.raws) = 2
    /\ Len(llm.sent[2]) = Len(llm.sent[1]) + 2
    /\ llm.raws[1] = Text("", Garbage, "")
    /\ ParseResponse(llm.raws[2]).tag = "err"
    /\ llm.out = LlmErr("LLM returned action with no valid tool calls")

\* the sum of the usages the API calls of one next_step reported
RECURSIVE SumUsed(_)
SumUsed(us) ==
    IF us = <<>> THEN ZeroUsage
    ELSE LET rest == SumUsed(Tail(us))
             u == IF Head(us).some THEN Head(us).usage ELSE ZeroUsage
         IN  [input_tokens |-> u.input_tokens + rest.input_tokens,
              output_tokens |-> u.output_tokens + rest.output_tokens]

\* C26: the usage of the StepResult next_step returns is the sum of the
\* usages of every API call it made, the call whose response failed to parse
\* included, and is None exactly when that sum is zero.
C26_UsageIsSumOfCalls ==
    llm.out.tag = "ok" =>
        /\ Len(llm.used) = llm.calls
        /\ llm.out.usage =
              IF SumUsed(llm.used).input_tokens + SumUsed(llm.used).output_tokens > 0
              THEN SomeUsage(SumUsed(llm.used))
              ELSE NoUsage

\* two calls were made, both reported usage, and the second response parsed
C26_Witness ==
    /\ llm.out.tag = "ok"
    /\ llm.calls = 2
    /\ llm.used = << SomeUsage(StepUsage), SomeUsage(StepUsage) >>
    /\ llm.out.usage.usage.input_tokens = 2 * StepUsage.input_tokens

\* C32: a transport or HTTP-status failure of a model API call is never
\* retried: next_step returns that error on the attempt where it occurs, and a
\* further call is made only after a response was received and failed to parse.
C32_TransportFailureNotRetried ==
    /\ Len(llm.outcomes) = llm.calls
    /\ \A k \in 1..Len(llm.outcomes) :
          /\ llm.outcomes[k] = "err" =>
                /\ k = Len(llm.outcomes)
                /\ llm.pc = "done"
                /\ llm.out = LlmErr("Anthropic API error")
          /\ k >= 2 =>
                /\ llm.outcomes[k - 1] = "ok"
                /\ Len(llm.raws) >= k - 1
                /\ ParseResponse(llm.raws[k - 1]).tag = "err"

\* the first response failed to parse and the retry then failed in transport
C32_Witness ==
    /\ llm.pc = "done"
    /\ llm.outcomes = << "ok", "err" >>
    /\ llm.out = LlmErr("Anthropic API error")
    /\ llm.raws = << Text("", Garbage, "") >>

\* C33: the system prompt next_step sends holds the session-context paragraph
\* if and only if the session history of the context is not empty.
C33_SessionParagraphIffSessionHistory ==
    \A k \in 1..Len(llm.systems) :
        (\E i \in 1..Len(llm.systems[k].parts) : llm.systems[k].parts[i] = "SESSION_CONTEXT")
            <=> llm.context.session_history # <<>>

\* C37: in every message list next_step sends, the retry list included, the
\* first and the last message have role user and the roles alternate; the
\* list holds two messages per session entry, one for the task, two per
\* Iteration entry of the history, and two more on the retry; Task and Answer
\* entries add none.
C37_MessagesAlternate ==
    \A k \in 1..Len(llm.sent) :
        LET ms == llm.sent[k]
            h == llm.context.history
            iterations == Cardinality({ i \in 1..Len(h) : h[i].kind = "Iteration" })
        IN  /\ Len(ms) = 2 * Len(llm.context.session_history) + 1 + 2 * iterations
                            + (IF k >= 2 THEN 2 ELSE 0)
            /\ ms[1].role = "user"
            /\ ms[Len(ms)].role = "user"
            /\ \A i \in 1..(Len(ms) - 1) :
                  ms[i].role \in {"user", "assistant"} /\ ms[i + 1].role # ms[i].role
                  /\ ms[i + 1].role \in {"user", "assistant"}

\* the retry list was sent for a context with a session entry and a history
\* of a Task, two Iterations and an Answer
C37_Witness ==
    /\ Len(llm.sent) = 2
    /\ Len(llm.context.session_history) = 1
    /\ Len(llm.context.history) = 4
    /\ Len(llm.sent[2]) = 9


\* ----------------------- properties of AuthStorage under concurrent callers
\* C34: under any interleaving of concurrent calls, once a set(p, c) and a set
\* or remove on a different provider q have both completed, get(p) is Some(c):
\* the call on q neither loses nor reverts the credential stored for p.
C34_ConcurrentSetsKeepBoth ==
    \A i \in Callers, j \in Callers :
        LET a == vault.callers[i]
            b == vault.callers[j]
        IN  ( /\ a.pc = "done" /\ a.op = "set"
              /\ b.pc = "done" /\ b.op \in { "set", "remove" }
              /\ a.provider # b.provider
              /\ \A k \in Callers \ {i} : vault.callers[k].provider # a.provider )
            => get(vault.file, a.provider) = a.credential

\* C35: when get_api_key calls run concurrently on one expired OAuth
\* credential, no refresh token is sent to the endpoint twice; once every
\* caller has returned, the file holds the bundle of the latest successful
\* refresh; and the access token a caller received was unexpired at return.
C35_RefreshTokenSentOnce ==
    LET onlyKeyCalls ==
            \A i \in Callers : vault.callers[i].op \in { "none", "get_api_key" }
        allReturned ==
            \A i \in Callers : vault.callers[i].pc \in { "idle", "done" }
    IN  onlyKeyCalls =>
          /\ \A m \in DOMAIN vault.requests, n \in DOMAIN vault.requests :
                 vault.requests[m] = vault.requests[n] => m = n
          /\ (allReturned /\ vault.issued # <<>>)
                 => get(vault.file, "anthropic") = vault.issued[Len(vault.issued)]
          /\ \A i \in Callers :
                 LET c == vault.callers[i]
                 IN  (c.pc = "done" /\ c.ret.tag = "Some" /\ c.got.variant = "OAuth")
                         => ~is_expired(c.at, c.got.expires)

====
